---- MODULE Spec2Model ----
(***************************************************************************)
(* Model of gql-validate: the validate command (runValidate, LoadConfig,   *)
(* initializeGraphJin, validateQueries / validateSingleQuery), its         *)
(* nested-error scanner (findNestedErrors / collectErrors), the init       *)
(* command (runInit / writeFileIfNotExists) and the standalone runner of   *)
(* main.go (loadConfig / testQueries / hasNestedErrors / checkForErrors).  *)
(*                                                                         *)
(* The specifications share the variables:                                 *)
(*   Spec     a validate run over up to MaxFiles query files, from the     *)
(*            loading of the configuration to the exit of the process;     *)
(*   SpecScan validateSingleQuery of one query file, the Engine answering  *)
(*            with any payload of ScanData;                                *)
(*   SpecMain a run of the standalone runner;                              *)
(*   SpecBoth a run of either runner;                                      *)
(*   SpecWalk findNestedErrors call by call (each collectErrors call is    *)
(*            a step), under the fairness of a sequential program.         *)
(*   SpecConfig   the loading of the configuration in either runner, over  *)
(*            the configuration files Yamls and the environments Environs; *)
(*   SpecPair two findNestedErrors calls in two goroutines, interleaved;   *)
(*   SpecScaffold up to MaxRuns runs of the init command in one directory. *)
(*                                                                         *)
(* A decoded JSON value (Go interface{} produced by json.Unmarshal) is a   *)
(* record of one shape for every variant, so that values of different      *)
(* variants can be compared:                                               *)
(*   t    : "null" | "bool" | "num" | "str" | "arr" | "obj"                *)
(*   s    : the string of a "str"                                          *)
(*   n    : the number of a "num"; 1/0 for a "bool" true/false             *)
(*   keys : the keys of an "obj" (no duplicates)                           *)
(*   kids : the elements of an "arr"; the values of an "obj", kids[i]      *)
(*          stored under keys[i]                                           *)
(* A Go map has no order: the order of keys/kids of an "obj" is only the   *)
(* order of the document; every `range` over a map picks its own order     *)
(* (RangeOrders).                                                          *)
(***************************************************************************)
EXTENDS Integers, Sequences, FiniteSets, TLC

VARIABLES
    queryFiles,  \* validateQueries: the query files handed to the run
    failFast,    \* the --fail-fast flag
    pc,          \* validate: "start" runValidate loads the configuration, "init"
                 \* it calls initializeGraphJin, "find" the query files are
                 \* looked for, "loop" validateQueries is iterating, "done" it
                 \* returned, "exit" the process exited; the standalone runner:
                 \* "main.start", "main.init", "main.find", "main.loop",
                 \* "main.done", "main.exit"; findNestedErrors: "call", "scan",
                 \* "collect", "found"; "go" while two goroutines scan; "init"
                 \* in the init command
    summary,     \* validateQueries' ValidationSummary
    resp,        \* the Engine's answer in the latest validateSingleQuery
    scanned,     \* TRUE iff the latest validateSingleQuery called findNestedErrors
    nested,      \* what that findNestedErrors call returned
    results,     \* main.go: testQueries' results (the standalone runner)
    calls,       \* the query files the Engine was invoked for, in call order
    exit,        \* <<>> while the process runs; once it exited, its exit
                 \* status and the error it printed on the way out
    walk,        \* findNestedErrors call by call: its argument, the pending
                 \* collectErrors calls and the findings appended so far
    configYaml,  \* the configuration file: what reading and parsing it gives
    environ,     \* the process environment: the variables that are set
    config,      \* the Config the runner loaded
    db,          \* the database handle: "none", "open" or "closed"
    scanners,    \* two findNestedErrors calls running in two goroutines
    scaffold     \* the init command: its flag, its position and the files
                 \* of the project directory

vars == <<queryFiles, failFast, pc, summary, resp, scanned, nested, results, calls, exit, walk,
          configYaml, environ, config, db, scanners, scaffold>>

----------------------------------------------------------------------------
(* Decoded values *)

Null == [t |-> "null", s |-> "", n |-> 0, keys |-> <<>>, kids |-> <<>>]
Bool(b) == [t |-> "bool", s |-> "", n |-> IF b THEN 1 ELSE 0, keys |-> <<>>, kids |-> <<>>]
Num(x) == [t |-> "num", s |-> "", n |-> x, keys |-> <<>>, kids |-> <<>>]
Str(x) == [t |-> "str", s |-> x, n |-> 0, keys |-> <<>>, kids |-> <<>>]
Arr(xs) == [t |-> "arr", s |-> "", n |-> 0, keys |-> <<>>, kids |-> xs]
Obj(ks, xs) == [t |-> "obj", s |-> "", n |-> 0, keys |-> ks, kids |-> xs]

Range(f) == {f[i] : i \in DOMAIN f}

\* v[key] with the comma-ok form: Has is ok, Get the value.
Has(v, key) == \E i \in DOMAIN v.keys : v.keys[i] = key
Get(v, key) == v.kids[CHOOSE i \in DOMAIN v.keys : v.keys[i] = key]

\* m[key] = val on a Go map: replaces the value of a key already present.
MapSet(v, key, val) ==
    IF Has(v, key)
    THEN [v EXCEPT !.kids[CHOOSE i \in DOMAIN v.keys : v.keys[i] = key] = val]
    ELSE [v EXCEPT !.keys = Append(@, key), !.kids = Append(@, val)]

RECURSIVE Flatten(_)
Flatten(ss) == IF ss = <<>> THEN <<>> ELSE Head(ss) \o Flatten(Tail(ss))

----------------------------------------------------------------------------
(* json.RawMessage: the bytes of a document, held as its sequence of JSON  *)
(* tokens. k is the token kind ("{", "}", "[", "]", ":", ",", "str",       *)
(* "num", "true", "false", "null"); s and n carry a literal's value.       *)

Tok(k) == [k |-> k, s |-> "", n |-> 0]
StrTok(x) == [k |-> "str", s |-> x, n |-> 0]
NumTok(x) == [k |-> "num", s |-> "", n |-> x]

RECURSIVE Encode(_), EncodeElems(_, _), EncodeMembers(_, _)
\* The document an Engine writes for value v (json.Marshal).
Encode(v) ==
    CASE v.t = "null" -> <<Tok("null")>>
      [] v.t = "bool" -> <<Tok(IF v.n = 1 THEN "true" ELSE "false")>>
      [] v.t = "num"  -> <<NumTok(v.n)>>
      [] v.t = "str"  -> <<StrTok(v.s)>>
      [] v.t = "arr"  -> <<Tok("[")>> \o EncodeElems(v, 1) \o <<Tok("]")>>
      [] v.t = "obj"  -> <<Tok("{")>> \o EncodeMembers(v, 1) \o <<Tok("}")>>
EncodeElems(v, i) ==
    IF i > Len(v.kids) THEN <<>>
    ELSE (IF i > 1 THEN <<Tok(",")>> ELSE <<>>) \o Encode(v.kids[i]) \o EncodeElems(v, i + 1)
EncodeMembers(v, i) ==
    IF i > Len(v.kids) THEN <<>>
    ELSE (IF i > 1 THEN <<Tok(",")>> ELSE <<>>)
         \o <<StrTok(v.keys[i]), Tok(":")>> \o Encode(v.kids[i]) \o EncodeMembers(v, i + 1)

\* A parse result: ok, the value, and the index of the first token not consumed.
Parsed(v, next) == [ok |-> TRUE, val |-> v, next |-> next]
ParseFail == [ok |-> FALSE, val |-> Null, next |-> 0]

KindAt(toks, i) == IF i \in DOMAIN toks THEN toks[i].k ELSE "eof"

RECURSIVE ParseValue(_, _), ParseElems(_, _, _), ParseMembers(_, _, _)
ParseValue(toks, i) ==
    LET k == KindAt(toks, i) IN
    CASE k = "null"  -> Parsed(Null, i + 1)
      [] k = "true"  -> Parsed(Bool(TRUE), i + 1)
      [] k = "false" -> Parsed(Bool(FALSE), i + 1)
      [] k = "num"   -> Parsed(Num(toks[i].n), i + 1)
      [] k = "str"   -> Parsed(Str(toks[i].s), i + 1)
      [] k = "["     -> IF KindAt(toks, i + 1) = "]"
                        THEN Parsed(Arr(<<>>), i + 2)
                        ELSE ParseElems(toks, i + 1, <<>>)
      [] k = "{"     -> IF KindAt(toks, i + 1) = "}"
                        THEN Parsed(Obj(<<>>, <<>>), i + 2)
                        ELSE ParseMembers(toks, i + 1, Obj(<<>>, <<>>))
      [] OTHER       -> ParseFail
\* After "[" or ",": a value, then "," or "]".
ParseElems(toks, i, acc) ==
    LET e == ParseValue(toks, i) IN
    IF ~e.ok THEN ParseFail
    ELSE CASE KindAt(toks, e.next) = "]" -> Parsed(Arr(Append(acc, e.val)), e.next + 1)
           [] KindAt(toks, e.next) = "," -> ParseElems(toks, e.next + 1, Append(acc, e.val))
           [] OTHER -> ParseFail
\* After "{" or ",": a string key, ":", a value, then "," or "}".
ParseMembers(toks, i, acc) ==
    IF KindAt(toks, i) # "str" \/ KindAt(toks, i + 1) # ":" THEN ParseFail
    ELSE LET e == ParseValue(toks, i + 2) IN
         IF ~e.ok THEN ParseFail
         ELSE LET m == MapSet(acc, toks[i].s, e.val) IN
              CASE KindAt(toks, e.next) = "}" -> Parsed(m, e.next + 1)
                [] KindAt(toks, e.next) = "," -> ParseMembers(toks, e.next + 1, m)
                [] OTHER -> ParseFail

\* json.Unmarshal(data, &result) with result an interface{}: err == nil iff
\* the whole input is one JSON value.
Unmarshal(data) ==
    LET p == ParseValue(data, 1) IN
    IF p.ok /\ p.next = Len(data) + 1 THEN [ok |-> TRUE, val |-> p.val]
    ELSE [ok |-> FALSE, val |-> Null]

----------------------------------------------------------------------------
(* fmt: the %v rendering of a decoded value (Go's fmt package): a string   *)
(* as it is, nil as <nil>, a float64 in its shortest form (the numbers     *)
(* used here are small non-negative integers), a slice as [a b], a map as  *)
(* map[k:v k:v] with its keys sorted.                                      *)

\* The keys that occur in documents, in byte order (fmt sorts map keys).
KeyOrder == <<"code", "data", "error", "errors", "id", "message", "posts", "title", "users">>

SortKeys(ks) == SelectSeq(KeyOrder, LAMBDA k : k \in Range(ks))

RECURSIVE FmtV(_), FmtElems(_, _), FmtEntries(_, _, _)
FmtV(v) ==
    CASE v.t = "null" -> "<nil>"
      [] v.t = "bool" -> IF v.n = 1 THEN "true" ELSE "false"
      [] v.t = "num"  -> ToString(v.n)
      [] v.t = "str"  -> v.s
      [] v.t = "arr"  -> "[" \o FmtElems(v, 1) \o "]"
      [] v.t = "obj"  -> "map[" \o FmtEntries(v, SortKeys(v.keys), 1) \o "]"
FmtElems(v, i) ==
    IF i > Len(v.kids) THEN ""
    ELSE (IF i > 1 THEN " " ELSE "") \o FmtV(v.kids[i]) \o FmtElems(v, i + 1)
FmtEntries(v, ks, i) ==
    IF i > Len(ks) THEN ""
    ELSE (IF i > 1 THEN " " ELSE "") \o ks[i] \o ":" \o FmtV(Get(v, ks[i]))
         \o FmtEntries(v, ks, i + 1)

----------------------------------------------------------------------------
(* collectErrors *)

\* location := path; if location == "" { location = "root" }
Location(path) == IF path = "" THEN "root" ELSE path

\* x.(string) ok, for a map lookup that may miss: errMap["message"].(string)
HasStringMessage(m) == Has(m, "message") /\ Get(m, "message").t = "str"

\* What one element e of the "errors" array, at index i, appends.
ErrorsElement(e, i, path) ==
    IF e.t = "obj"
    THEN IF HasStringMessage(e)
         THEN <<"Error at " \o Location(path) \o "[" \o ToString(i) \o "]: "
                \o Get(e, "message").s>>
         ELSE <<"Error at " \o path \o "[" \o ToString(i) \o "]: " \o FmtV(e)>>
    ELSE <<>>

\* ErrorsKey with only the first element of the array reported.
ErrorsKeyFirstOnly(v, path) ==
    IF Has(v, "errors") /\ Get(v, "errors").t # "null"
    THEN LET errs == Get(v, "errors") IN
         IF errs.t = "arr" /\ Len(errs.kids) > 0
         THEN ErrorsElement(errs.kids[1], 0, path)
         ELSE <<>>
    ELSE <<>>

\* ErrorsKey with a value that is no array reported as one error.
ErrorsKeyAnyShape(v, path) ==
    IF Has(v, "errors") /\ Get(v, "errors").t # "null"
    THEN LET errs == Get(v, "errors") IN
         IF errs.t = "arr"
         THEN Flatten([k \in 1 .. Len(errs.kids) |-> ErrorsElement(errs.kids[k], k - 1, path)])
         ELSE <<"Error at " \o Location(path) \o "[0]: " \o FmtV(errs)>>
    ELSE <<>>

\* The check for the "errors" key (array of errors) of mapping v.
ErrorsKey(v, path) ==
    IF Has(v, "errors") /\ Get(v, "errors").t # "null"
    THEN LET errs == Get(v, "errors") IN
         IF errs.t = "arr" /\ Len(errs.kids) > 0
         THEN Flatten([k \in 1 .. Len(errs.kids) |-> ErrorsElement(errs.kids[k], k - 1, path)])
         ELSE <<>>
    ELSE <<>>

\* ErrorKey as the else-branch of the "errors" check: skipped when the
\* mapping has an "errors" key.
ErrorKeyUnlessErrors(v, path) ==
    IF ~Has(v, "errors") /\ Has(v, "error") /\ Get(v, "error").t # "null"
    THEN LET errVal == Get(v, "error") IN
         CASE errVal.t = "str" ->
                IF errVal.s # "" THEN <<"Error at " \o Location(path) \o ": " \o errVal.s>>
                ELSE <<>>
           [] errVal.t = "obj" ->
                IF HasStringMessage(errVal)
                THEN <<"Error at " \o Location(path) \o ": " \o Get(errVal, "message").s>>
                ELSE <<>>
           [] OTHER -> <<>>
    ELSE <<>>

\* ErrorKey with a default case that reports any other value by its rendering.
ErrorKeyAnyValue(v, path) ==
    IF Has(v, "error") /\ Get(v, "error").t # "null"
    THEN LET errVal == Get(v, "error") IN
         CASE errVal.t = "str" ->
                IF errVal.s # "" THEN <<"Error at " \o Location(path) \o ": " \o errVal.s>>
                ELSE <<>>
           [] errVal.t = "obj" /\ HasStringMessage(errVal) ->
                <<"Error at " \o Location(path) \o ": " \o Get(errVal, "message").s>>
           [] OTHER -> <<"Error at " \o Location(path) \o ": " \o FmtV(errVal)>>
    ELSE <<>>

\* The check for the "error" key (single error) of mapping v.
ErrorKey(v, path) ==
    IF Has(v, "error") /\ Get(v, "error").t # "null"
    THEN LET errVal == Get(v, "error") IN
         CASE errVal.t = "str" ->
                IF errVal.s # "" THEN <<"Error at " \o Location(path) \o ": " \o errVal.s>>
                ELSE <<>>
           [] errVal.t = "obj" ->
                IF HasStringMessage(errVal)
                THEN <<"Error at " \o Location(path) \o ": " \o Get(errVal, "message").s>>
                ELSE <<>>
           [] OTHER -> <<>>
    ELSE <<>>

\* newPath of a mapping's child under key.
KeyPath(path, key) == IF path # "" THEN path \o "." \o key ELSE key

\* IndexPath with the index joined like a field name, by a dot.
IndexPathDotted(path, i) ==
    IF path = "" THEN "[" \o ToString(i) \o "]" ELSE path \o ".[" \o ToString(i) \o "]"

\* newPath of a sequence's element at index i.
IndexPath(path, i) ==
    IF path = "" THEN "[" \o ToString(i) \o "]" ELSE path \o "[" \o ToString(i) \o "]"

\* The findings appended by collectErrors(data, errors, path), the keys of
\* every mapping ranged over in the order they are listed in.
RECURSIVE collectErrors(_, _)

\* collectErrors with a range over a mapping that stops at the first child
\* that gave findings.
collectErrorsUntilFound(data, path) ==
    CASE data.t = "obj" ->
           LET sub == [k \in 1 .. Len(data.kids) |->
                          collectErrors(data.kids[k], KeyPath(path, data.keys[k]))]
               hits == {k \in DOMAIN sub : sub[k] # <<>>}
           IN  ErrorsKey(data, path) \o ErrorKey(data, path)
               \o (IF hits = {} THEN <<>>
                   ELSE sub[CHOOSE k \in hits : \A h \in hits : k <= h])
      [] data.t = "arr" ->
           Flatten([k \in 1 .. Len(data.kids) |->
                       collectErrors(data.kids[k], IndexPath(path, k - 1))])
      [] OTHER -> <<>>

\* collectErrors that recurses into the children first and looks at the
\* mapping's own "errors" and "error" keys afterwards.
collectErrorsChildrenFirst(data, path) ==
    CASE data.t = "obj" ->
           Flatten([k \in 1 .. Len(data.kids) |->
                       collectErrors(data.kids[k], KeyPath(path, data.keys[k]))])
           \o ErrorsKey(data, path) \o ErrorKey(data, path)
      [] data.t = "arr" ->
           Flatten([k \in 1 .. Len(data.kids) |->
                       collectErrors(data.kids[k], IndexPath(path, k - 1))])
      [] OTHER -> <<>>

\* collectErrors(data, errors, path): what it appends to errors.
collectErrors(data, path) ==
    CASE data.t = "obj" ->
           ErrorsKey(data, path) \o ErrorKey(data, path)
           \o Flatten([k \in 1 .. Len(data.kids) |->
                          collectErrors(data.kids[k], KeyPath(path, data.keys[k]))])
      [] data.t = "arr" ->
           Flatten([k \in 1 .. Len(data.kids) |->
                       collectErrors(data.kids[k], IndexPath(path, k - 1))])
      [] OTHER -> <<>>

\* The orders of 1..n.
Perms(n) == {p \in [1 .. n -> 1 .. n] : \A i, j \in 1 .. n : p[i] = p[j] => i = j}

\* `for key, value := range v` over a Go map visits the keys in an order the
\* runtime picks anew for every range statement: the set of the trees v with
\* the entries of every mapping in it listed in some order.
RECURSIVE RangeOrders(_), RangeOrdersAll(_)
RangeOrders(v) ==
    CASE v.t = "obj" ->
           {Obj([i \in 1 .. Len(ks) |-> v.keys[p[i]]], [i \in 1 .. Len(ks) |-> ks[p[i]]]) :
               p \in Perms(Len(v.keys)), ks \in RangeOrdersAll(v.kids)}
      [] v.t = "arr" -> {Arr(ks) : ks \in RangeOrdersAll(v.kids)}
      [] OTHER -> {v}
RangeOrdersAll(kids) ==
    IF kids = <<>> THEN {<<>>}
    ELSE {<<h>> \o t : h \in RangeOrders(Head(kids)), t \in RangeOrdersAll(Tail(kids))}

\* findNestedErrors with a decode failure reported as a finding.
findNestedErrorsReporting(data) ==
    IF Len(data) = 0 THEN {<<>>}
    ELSE LET result == Unmarshal(data) IN
         IF ~result.ok THEN {<<"Failed to decode response data">>}
         ELSE {collectErrors(w, "") : w \in RangeOrders(result.val)}

\* findNestedErrors(data): the lists it can return.
findNestedErrors(data) ==
    IF Len(data) = 0 THEN {<<>>}
    ELSE LET result == Unmarshal(data) IN
         IF ~result.ok THEN {<<>>}
         ELSE {collectErrors(w, "") : w \in RangeOrders(result.val)}

----------------------------------------------------------------------------
(* findNestedErrors call by call: the calls of collectErrors *)

\* No findNestedErrors call is followed call by call.
NoWalk == [data |-> <<>>, stack |-> <<>>, errors |-> <<>>]

\* A pending call collectErrors(v, errors, path).
Call(v, path) == [v |-> v, path |-> path]

\* What collectErrors(data, errors, path) appends for data's own keys.
OwnFindings(data, path) ==
    IF data.t = "obj" THEN ErrorsKey(data, path) \o ErrorKey(data, path) ELSE <<>>

\* RecursiveCalls for a walk that calls collectErrors again for a value that
\* is neither a mapping nor a sequence.
RecursiveCallsOnScalars(data, path, p) ==
    CASE data.t = "obj" ->
           [k \in 1 .. Len(data.kids) |-> Call(data.kids[p[k]], KeyPath(path, data.keys[p[k]]))]
      [] data.t = "arr" ->
           [k \in 1 .. Len(data.kids) |-> Call(data.kids[k], IndexPath(path, k - 1))]
      [] OTHER -> <<Call(data, path)>>

\* The recursive calls collectErrors(data, errors, path) makes, in the order
\* it makes them: p is the order its range statement visits a mapping's keys
\* in; a sequence is visited by index; any other value makes no call.
RecursiveCalls(data, path, p) ==
    CASE data.t = "obj" ->
           [k \in 1 .. Len(data.kids) |-> Call(data.kids[p[k]], KeyPath(path, data.keys[p[k]]))]
      [] data.t = "arr" ->
           [k \in 1 .. Len(data.kids) |-> Call(data.kids[k], IndexPath(path, k - 1))]
      [] OTHER -> <<>>

----------------------------------------------------------------------------
(* validateSingleQuery *)

\* filepath.Base for a slash-separated path with a non-empty last element.
RECURSIVE Base(_)
Base(path) ==
    IF \E i \in 1 .. Len(path) : SubSeq(path, i, i) = "/"
    THEN Base(SubSeq(path, 2, Len(path)))
    ELSE path

\* strings.TrimSuffix(queryPath, ".graphql") + ".json"
JsonFile(queryPath) ==
    LET n == Len(queryPath) IN
    IF n >= 8 /\ SubSeq(queryPath, n - 7, n) = ".graphql"
    THEN SubSeq(queryPath, 1, n - 8) \o ".json"
    ELSE queryPath \o ".json"

\* time.Since(start).Milliseconds(): the elapsed time is the environment's.
ElapsedMs == {3}

\* No variables file beside the query file: os.Stat(jsonFile) fails.
NoFile == [exists |-> FALSE, readable |-> FALSE, data |-> <<>>]

\* The Engine was not (yet) invoked in the latest validateSingleQuery.
NoResp ==
    [invoked |-> FALSE, query |-> "", file |-> NoFile, variables |-> <<>>, hasErr |-> FALSE,
     err |-> "", hasRes |-> FALSE, Errors |-> <<>>, Data |-> <<>>]

\* What gj.GraphQL(ctx, query, variables, nil) returned: err (hasErr: err != nil)
\* and res (hasRes: res != nil) with res.Errors and res.Data; file is the
\* variables file the call found beside the query file.
Answer(query, file, variables, r) ==
    [invoked |-> TRUE, query |-> query, file |-> file, variables |-> variables,
     hasErr |-> r.hasErr, err |-> r.err, hasRes |-> r.hasRes, Errors |-> r.Errors,
     Data |-> r.Data]

\* ResultErrors with the checks chained by else: an execution error hides
\* the structured errors and the nested findings.
ResultErrorsElse(r, found) ==
    IF r.hasErr THEN <<"Execution error: " \o r.err>>
    ELSE IF r.hasRes /\ Len(r.Errors) > 0
         THEN [k \in 1 .. Len(r.Errors) |-> r.Errors[k].Message]
         ELSE IF r.hasRes /\ Len(r.Data) > 0 THEN found ELSE <<>>

\* ResultErrors with the execution error worded as the standalone runner
\* words it.
ResultErrorsAsMain(r, found) ==
    LET e1 == IF r.hasErr THEN <<"GraphQL execution error: " \o r.err>> ELSE <<>>
        e2 == IF r.hasRes /\ Len(r.Errors) > 0
              THEN e1 \o [k \in 1 .. Len(r.Errors) |-> r.Errors[k].Message]
              ELSE e1
    IN  IF r.hasRes /\ Len(r.Data) > 0 /\ Len(found) > 0 THEN e2 \o found ELSE e2

\* result.Errors after the three checks that follow the Engine call, found
\* being what findNestedErrors returned (when it was called).
ResultErrors(r, found) ==
    LET e1 == IF r.hasErr THEN <<"Execution error: " \o r.err>> ELSE <<>>
        e2 == IF r.hasRes /\ Len(r.Errors) > 0
              THEN e1 \o [k \in 1 .. Len(r.Errors) |-> r.Errors[k].Message]
              ELSE e1
    IN  IF r.hasRes /\ Len(r.Data) > 0 /\ Len(found) > 0 THEN e2 \o found ELSE e2

\* TestResult with Passed true from the start, cleared by the checks that
\* follow the Engine call only.
TestResultPassedAtStart(queryPath, errs, ms, early) ==
    [Name |-> Base(queryPath), Path |-> queryPath,
     Passed |-> IF early THEN TRUE ELSE Len(errs) = 0,
     Errors |-> errs, Duration |-> ms]

\* Query passes only if there are no errors at any level.
TestResult(queryPath, errs, ms, early) ==
    [Name |-> Base(queryPath), Path |-> queryPath,
     Passed |-> IF early THEN FALSE ELSE Len(errs) = 0,
     Errors |-> errs, Duration |-> ms]

----------------------------------------------------------------------------
(* validateQueries *)

\* The query file of the iteration the loop is at.
qf == queryFiles[Len(summary.Results) + 1]

\* Record with a break on any failure, fail-fast requested or not.
RecordBreaking(result) ==
    /\ summary' = [summary EXCEPT
                     !.Results = Append(@, result),
                     !.Passed = IF result.Passed THEN @ + 1 ELSE @,
                     !.Failed = IF result.Passed THEN @ ELSE @ + 1]
    /\ pc' = IF ~result.Passed \/ Len(summary.Results) + 1 = Len(queryFiles)
             THEN "done" ELSE "loop"
    /\ UNCHANGED <<queryFiles, failFast, results, exit, walk, configYaml, environ, config, db,
                   scanners, scaffold>>

\* Record with the result put in front of the earlier ones.
RecordInFront(result) ==
    /\ summary' = [summary EXCEPT
                     !.Results = <<result>> \o @,
                     !.Passed = IF result.Passed THEN @ + 1 ELSE @,
                     !.Failed = IF result.Passed THEN @ ELSE @ + 1]
    /\ pc' = IF (~result.Passed /\ failFast) \/ Len(summary.Results) + 1 = Len(queryFiles)
             THEN "done" ELSE "loop"
    /\ UNCHANGED <<queryFiles, failFast, results, exit, walk, configYaml, environ, config, db,
                   scanners, scaffold>>

\* Record with no break: fail-fast is ignored.
RecordNeverBreaking(result) ==
    /\ summary' = [summary EXCEPT
                     !.Results = Append(@, result),
                     !.Passed = IF result.Passed THEN @ + 1 ELSE @,
                     !.Failed = IF result.Passed THEN @ ELSE @ + 1]
    /\ pc' = IF Len(summary.Results) + 1 = Len(queryFiles) THEN "done" ELSE "loop"
    /\ UNCHANGED <<queryFiles, failFast, results, exit, walk, configYaml, environ, config, db,
                   scanners, scaffold>>

\* One iteration's tail: append the result, count it, break on fail-fast;
\* the loop ends, and validateQueries returns, after the last file.
Record(result) ==
    /\ summary' = [summary EXCEPT
                     !.Results = Append(@, result),
                     !.Passed = IF result.Passed THEN @ + 1 ELSE @,
                     !.Failed = IF result.Passed THEN @ ELSE @ + 1]
    /\ pc' = IF (~result.Passed /\ failFast) \/ Len(summary.Results) + 1 = Len(queryFiles)
             THEN "done" ELSE "loop"
    /\ UNCHANGED <<queryFiles, failFast, results, exit, walk, configYaml, environ, config, db,
                   scanners, scaffold>>

\* os.ReadFile(queryPath) fails: validateSingleQuery returns early.
ReadQueryFails ==
    /\ pc = "loop"
    /\ \E ms \in ElapsedMs :
          Record(TestResult(qf, <<"Failed to read query file: open " \o qf
                                   \o ": permission denied">>, ms, TRUE))
    /\ resp' = NoResp
    /\ scanned' = FALSE
    /\ nested' = <<>>
    /\ calls' = calls

\* The variables file exists (os.Stat) and os.ReadFile of it fails.
ReadVariablesFails ==
    /\ pc = "loop"
    /\ \E ms \in ElapsedMs :
          Record(TestResult(qf, <<"Failed to read variables file: open " \o JsonFile(qf)
                                   \o ": permission denied">>, ms, TRUE))
    /\ resp' = NoResp
    /\ scanned' = FALSE
    /\ nested' = <<>>
    /\ calls' = calls

\* The text of a query file.
QueryText(path) == "query { " \o Base(path) \o " }"

\* json.RawMessage("{}"): the variables when there is no variables file.
NoVariables == <<Tok("{"), Tok("}")>>

\* The variables file a query can have, files being what one can hold: none,
\* or one with its bytes that os.ReadFile can read or cannot.
JsonFiles(files) ==
    {NoFile} \cup {[exists |-> TRUE, readable |-> r, data |-> f] : r \in BOOLEAN, f \in files}

\* validateSingleQuery's variables for a file that can be read when it exists:
\* the file's bytes, "{}" when there is no file.
Variables(file) == IF file.exists THEN file.data ELSE NoVariables

\* testQueries' variables in main.go: the file's bytes, "{}" when there is no
\* file, and nil (no bytes) when the file exists and cannot be read.
mainVariables(file) ==
    IF file.exists
    THEN IF file.readable THEN file.data ELSE <<>>
    ELSE NoVariables

\* Invoke with one retry of a call that returned an error.
InvokeRetrying(log, path, r) ==
    IF r.hasErr THEN Append(Append(log, path), path) ELSE Append(log, path)

\* The calls of the Engine after gj.GraphQL was called for the query file
\* path and answered r: one call, whatever the answer.
Invoke(log, path, r) == Append(log, path)

\* The query file is read, and the variables file when there is one (files:
\* what a variables file can hold); the Engine is invoked once and answers r
\* (one of answers); the three checks build the result.
Execute(files, answers) ==
    /\ pc = "loop"
    /\ \E file \in {f \in JsonFiles(files) : f.exists => f.readable},
          r \in answers, ms \in ElapsedMs :
          /\ resp' = Answer(QueryText(qf), file, Variables(file), r)
          /\ calls' = Invoke(calls, qf, r)
          /\ scanned' = (r.hasRes /\ Len(r.Data) > 0)
          /\ \E found \in (IF r.hasRes /\ Len(r.Data) > 0
                           THEN findNestedErrors(r.Data) ELSE {<<>>}) :
                /\ nested' = found
                /\ Record(TestResult(qf, ResultErrors(r, found), ms, FALSE))

----------------------------------------------------------------------------
(* main.go, the standalone runner: testQueries *)

\* checkForErrors(data)
RECURSIVE checkForErrors(_)
checkForErrors(data) ==
    CASE data.t = "obj" ->
           \/ Has(data, "errors") /\ Get(data, "errors").t # "null"
           \/ Has(data, "error") /\ Get(data, "error").t # "null" /\ Get(data, "error") # Str("")
           \/ \E k \in DOMAIN data.kids : checkForErrors(data.kids[k])
      [] data.t = "arr" -> \E k \in DOMAIN data.kids : checkForErrors(data.kids[k])
      [] OTHER -> FALSE

\* hasNestedErrors(data): json.Unmarshal into a map[string]interface{} takes
\* an object, and null (the map stays nil), and fails on anything else.
hasNestedErrors(data) ==
    IF Len(data) = 0 THEN FALSE
    ELSE LET result == Unmarshal(data) IN
         IF ~result.ok \/ result.val.t \notin {"obj", "null"} THEN FALSE
         ELSE checkForErrors(result.val)

\* The query file of the iteration testQueries is at.
queryFile == queryFiles[Len(results) + 1]

\* results = append(results, result), and the loop's end after the last file.
MainAppend(result) ==
    /\ results' = Append(results, result)
    /\ pc' = IF Len(results) + 1 = Len(queryFiles) THEN "main.done" ELSE "main.loop"
    /\ UNCHANGED <<queryFiles, failFast, summary, nested, exit, walk, configYaml, environ,
                   config, db, scanners, scaffold>>

\* ioutil.ReadFile(queryFile) fails: the result is appended, the loop continues.
MainReadQueryFails ==
    /\ pc = "main.loop"
    /\ \E ms \in ElapsedMs :
          MainAppend([Name |-> Base(queryFile), Path |-> queryFile, Passed |-> FALSE,
                      Error |-> "Failed to read query file: open " \o queryFile
                                 \o ": permission denied",
                      Duration |-> ms])
    /\ resp' = NoResp
    /\ scanned' = FALSE
    /\ calls' = calls

\* The query is read; variables are the variables file's bytes, "{}" when
\* there is none, and nil (no bytes) when it exists and cannot be read. The
\* Engine is invoked once and answers r; res is read only when err is nil,
\* and the Engine returns a result whenever it returns no error.
MainExecute(files, answers) ==
    /\ pc = "main.loop"
    /\ \E file \in JsonFiles(files), ms \in ElapsedMs,
          r \in {a \in answers : a.hasRes \/ a.hasErr} :
          /\ resp' = Answer(QueryText(queryFile), file, mainVariables(file), r)
          /\ calls' = Invoke(calls, queryFile, r)
          /\ scanned' = ~r.hasErr
          /\ MainAppend([Name |-> Base(queryFile), Path |-> queryFile,
                         Passed |-> ~r.hasErr /\ ~hasNestedErrors(r.Data),
                         Error |-> IF r.hasErr THEN "GraphQL execution error: " \o r.err
                                   ELSE IF hasNestedErrors(r.Data)
                                        THEN "Query returned nested errors in data"
                                        ELSE "",
                         Duration |-> ms])

----------------------------------------------------------------------------
(* The environment: query files and the Engine's answers *)

\* The most query files a run is handed.
MaxFiles == 2

\* findQueryFiles: the i-th query file found.
QueryFile(i) == IF i = 1 THEN "queries/get_user.graphql"
                ELSE "queries/sub/q" \o ToString(i) \o ".graphql"

\* The longest list of messages under an "errors" key, and the largest index
\* a mapping of a payload is placed at.
MaxList == 2
MaxIndex == 1

Msg(m) == Obj(<<"message">>, <<Str(m)>>)
Entry(key, v) == Obj(<<key>>, <<v>>)
Merge(a, b) == Obj(a.keys \o b.keys, a.kids \o b.kids)

\* Values a payload carries under an "error" key.
ErrorValues ==
    {Null, Str(""), Str("bad"), Num(1), Bool(TRUE), Arr(<<>>),
     Msg("denied"), Entry("message", Num(1)), Entry("code", Num(1)),
     Entry("error", Str("inner")), Arr(<<Entry("error", Str("inner"))>>)}

\* Values a payload carries under an "errors" key.
ErrorsValues ==
    {Arr([k \in 1 .. n |-> Msg("e" \o ToString(k))]) : n \in 1 .. MaxList}
    \cup
    {Null, Arr(<<>>), Arr(<<Str("boom")>>), Arr(<<Num(1), Bool(FALSE), Null>>),
     Arr(<<Arr(<<Msg("x")>>)>>), Arr(<<Entry("code", Num(1))>>),
     Arr(<<Msg("x"), Entry("message", Num(1))>>),
     Arr(<<Entry("error", Str("deep"))>>),
     Str("not-a-list"), Num(1), Bool(TRUE), Entry("error", Str("x")),
     Entry("code", Num(1))}

\* A mapping with or without an "error" and an "errors" key.
Cores ==
    {Merge(a, b) :
        a \in {Obj(<<>>, <<>>)} \cup {Entry("error", v) : v \in ErrorValues},
        b \in {Obj(<<>>, <<>>)} \cup {Entry("errors", v) : v \in ErrorsValues}}

\* A step down from a value to one of its children: under key (sib: beside an
\* "error" key of the same mapping), or at index idx of a sequence.
Key(k) == [key |-> k, idx |-> -1, sib |-> FALSE]
KeyBesideError(k) == [key |-> k, idx |-> -1, sib |-> TRUE]
Index(i) == [key |-> "", idx |-> i, sib |-> FALSE]

\* Where in a payload a mapping of Cores sits.
Contexts ==
    {<<Index(i)>> : i \in 0 .. MaxIndex}
    \cup {<<Key("users"), Key("posts"), Index(i)>> : i \in 1 .. MaxIndex}
    \cup
    {<<>>, <<Key("users")>>,
     <<Key("users"), Index(0), Key("posts")>>,
     <<Index(1), Key("users"), Index(0), Key("posts")>>,
     <<KeyBesideError("data"), Key("users")>>,
     <<Key("errors")>>, <<Key("error")>>, <<Key("errors"), Index(0)>>}

\* The payload with value v at the end of the steps ctx.
RECURSIVE Wrap(_, _)
Wrap(ctx, v) ==
    IF ctx = <<>> THEN v
    ELSE LET step == Head(ctx)
             inner == Wrap(Tail(ctx), v)
         IN  IF step.idx >= 0
             THEN Arr([k \in 1 .. step.idx |-> Entry("id", Num(k))] \o <<inner>>)
             ELSE IF step.sib
                  THEN Obj(<<"error", step.key>>, <<Str("sibling"), inner>>)
                  ELSE Entry(step.key, inner)

\* Payloads with findings at several depths and in several elements of one
\* sequence.
DeepValues ==
    {Arr(<<Entry("error", Str("a")), Entry("error", Str("b"))>>),
     Obj(<<"error", "users">>,
         <<Str("top"),
           Arr(<<Obj(<<"error", "posts">>, <<Str("a"), Entry("error", Str("deep"))>>),
                 Entry("error", Str("b"))>>)>>)}

\* Payloads with keys that read like a piece of a rendered path: the word
\* root, a key with a dot in it, a key with an index in it.
KeyValues ==
    {Obj(<<"error", "root">>, <<Str("x"), Entry("error", Str("y"))>>),
     Obj(<<"users.posts", "users">>,
         <<Entry("error", Str("x")), Entry("posts", Entry("error", Str("y")))>>),
     Obj(<<"users[0]", "users">>,
         <<Entry("error", Str("x")), Arr(<<Entry("error", Str("y"))>>)>>)}

\* Payloads that are one JSON value.
ScanValues ==
    {Wrap(ctx, c) : ctx \in Contexts, c \in Cores}
    \cup DeepValues \cup KeyValues
    \cup {Null, Num(1), Str("error"), Arr(<<>>)}

\* Payloads json.Unmarshal rejects, and one with a key given twice.
BadDocuments ==
    {<<Tok("{")>>, <<Tok("]")>>,
     <<Tok("{"), StrTok("error"), Tok(":"), StrTok("bad")>>,
     <<Tok("{"), StrTok("error"), Tok(":"), StrTok("bad"), Tok(","), Tok("}")>>,
     <<Tok("["), StrTok("error"), Tok(":"), StrTok("bad"), Tok("]")>>,
     <<Tok("{"), StrTok("error"), Tok(":"), StrTok("bad"), Tok("}"), Tok("}")>>}
TwiceDocuments ==
    {<<Tok("{"), StrTok("error"), Tok(":"), StrTok("bad"), Tok(","),
       StrTok("error"), Tok(":"), StrTok(""), Tok("}")>>,
     <<Tok("{"), StrTok("error"), Tok(":"), Tok("null"), Tok(","),
       StrTok("error"), Tok(":"), StrTok("late"), Tok("}")>>}

ScanData == {Encode(v) : v \in ScanValues} \cup BadDocuments \cup TwiceDocuments \cup {<<>>}

\* json.Unmarshal(data, &parsed) for every payload of ScanData.
Unmarshalled == [d \in ScanData |-> Unmarshal(d)]

\* The payloads of the run loop's Engine: empty, undecodable, the scenarios'.
RunData ==
    {<<>>, <<Tok("{")>>,
     Encode(Entry("users", Arr(<<Entry("id", Num(1))>>))),
     Encode(Entry("posts", Arr(<<Entry("title", Str("A")), Entry("error", Str("no access"))>>)))}

EngineErrors == {"table not found: public.x"}
StructuredErrors ==
    {<<>>, <<[Message |-> "column: 'users.invalid_field' not found"]>>,
     <<[Message |-> "first"], [Message |-> "second"]>>}

\* What the Engine can answer, given the payloads it can return.
Answers(payloads, lists) ==
    LET errs == {[hasErr |-> FALSE, err |-> ""]} \cup
                {[hasErr |-> TRUE, err |-> m] : m \in EngineErrors}
    IN  {[hasErr |-> e.hasErr, err |-> e.err, hasRes |-> FALSE, Errors |-> <<>>, Data |-> <<>>] :
            e \in errs}
        \cup
        {[hasErr |-> e.hasErr, err |-> e.err, hasRes |-> TRUE, Errors |-> l, Data |-> d] :
            e \in errs, l \in lists, d \in payloads}

\* Payloads whose "error" and "errors" keys hold nothing.
QuietData ==
    {Encode(Wrap(ctx, c)) :
        ctx \in {<<>>, <<Key("users"), Index(0)>>},
        c \in {Entry("error", Str("")), Entry("error", Null), Entry("errors", Arr(<<>>)),
                Entry("errors", Null), Entry("id", Num(1))}}

\* What a variables file holds.
VariablesFiles == {<<Tok("{"), StrTok("id"), Tok(":"), NumTok(1), Tok("}")>>}

\* A query of the run loop: with or without a variables file.
ExecuteRun == Execute(VariablesFiles, Answers(RunData, {l \in StructuredErrors : Len(l) < 2}))
\* The query of the scan: no variables file, any payload of ScanData.
ExecuteScan == Execute({}, Answers(ScanData, {l \in StructuredErrors : Len(l) # 1}))
\* A query of the standalone runner.
ExecuteMain ==
    MainExecute(VariablesFiles,
                Answers(RunData \cup QuietData, {l \in StructuredErrors : Len(l) < 2}))

----------------------------------------------------------------------------
(* Configuration: config.yaml, the environment, LoadConfig, Validate *)

\* No error (nil), and the error with message msg.
Nil == [failed |-> FALSE, msg |-> ""]
Error(msg) == [failed |-> TRUE, msg |-> msg]

\* The Database part of a Config, as yaml.Unmarshal leaves it for a file
\* that sets no field: Go's zero values.
ZeroDatabase ==
    [Host |-> "", Port |-> 0, DBName |-> "", User |-> "", Password |-> "", SSLMode |-> ""]
NoConfig == [loaded |-> FALSE, Database |-> ZeroDatabase]

\* os.Getenv: the value of a variable that is set, "" for one that is not.
Getenv(env, key) == IF key \in DOMAIN env THEN env[key] ELSE ""

\* getEnv(key, defaultValue)
getEnv(env, key, defaultValue) ==
    IF Getenv(env, key) # "" THEN Getenv(env, key) ELSE defaultValue

\* fmt.Sscanf(str, "%d", &port): leading spaces are skipped, a sign is
\* accepted, then the longest run of the characters 0-9 and _ is the token;
\* no token, or a token strconv.ParseInt rejects in base 10 (one holding an
\* underscore), is an error. What follows the token is not looked at.
Digits == <<"0", "1", "2", "3", "4", "5", "6", "7", "8", "9">>
IsDigit(c) == \E d \in DOMAIN Digits : Digits[d] = c
DigitValue(c) == (CHOOSE d \in DOMAIN Digits : Digits[d] = c) - 1
CharAt(str, i) == SubSeq(str, i, i)
RECURSIVE SkipSpace(_, _)
SkipSpace(str, i) ==
    IF i <= Len(str) /\ CharAt(str, i) = " " THEN SkipSpace(str, i + 1) ELSE i
RECURSIVE scanNumber(_, _)
scanNumber(str, i) ==
    IF i <= Len(str) /\ (IsDigit(CharAt(str, i)) \/ CharAt(str, i) = "_")
    THEN scanNumber(str, i + 1)
    ELSE i
RECURSIVE ParseInt(_, _)
ParseInt(tok, n) ==
    IF n = 0 THEN [ok |-> TRUE, n |-> 0]
    ELSE LET rest == ParseInt(tok, n - 1) IN
         IF rest.ok /\ IsDigit(CharAt(tok, n))
         THEN [ok |-> TRUE, n |-> rest.n * 10 + DigitValue(CharAt(tok, n))]
         ELSE [ok |-> FALSE, n |-> 0]
Sscanf(str) ==
    LET start == SkipSpace(str, 1)
        signed == start <= Len(str) /\ CharAt(str, start) \in {"+", "-"}
        from == IF signed THEN start + 1 ELSE start
        to == scanNumber(str, from)
        tok == SubSeq(str, from, to - 1)
        parsed == ParseInt(tok, Len(tok))
    IN  IF to = from \/ ~parsed.ok THEN [ok |-> FALSE, n |-> 0]
        ELSE [ok |-> TRUE,
              n |-> IF signed /\ CharAt(str, start) = "-" THEN 0 - parsed.n ELSE parsed.n]

\* LoadConfig(configPath): the file is read and parsed, then the environment
\* overrides the fields: the strings through getEnv, the port when DB_PORT
\* is not empty and scans as an integer.
LoadConfig(yaml, env) ==
    IF ~yaml.read
    THEN [err |-> Error("could not read config file: open config.yaml: no such file or directory"),
          config |-> NoConfig]
    ELSE IF ~yaml.parsed
    THEN [err |-> Error("could not parse config file: yaml: unmarshal errors"),
          config |-> NoConfig]
    ELSE LET portStr == Getenv(env, "DB_PORT")
             port == Sscanf(portStr)
         IN [err |-> Nil,
             config |-> [loaded |-> TRUE,
                         Database |-> [Host |-> getEnv(env, "DB_HOST", yaml.Database.Host),
                                       Port |-> IF portStr # "" /\ port.ok
                                                THEN port.n
                                                ELSE yaml.Database.Port,
                                       DBName |-> getEnv(env, "DB_NAME", yaml.Database.DBName),
                                       User |-> getEnv(env, "DB_USER", yaml.Database.User),
                                       Password |-> getEnv(env, "DB_PASSWORD", yaml.Database.Password),
                                       SSLMode |-> getEnv(env, "DB_SSLMODE", yaml.Database.SSLMode)]]]

\* main.go's loadConfig(configPath): the file is read and parsed; the
\* environment is not consulted.
loadConfig(yaml, env) ==
    IF ~yaml.read
    THEN [err |-> Error("could not read config file: open config.yaml: no such file or directory"),
          config |-> NoConfig]
    ELSE IF ~yaml.parsed
    THEN [err |-> Error("could not parse config file: yaml: unmarshal errors"),
          config |-> NoConfig]
    ELSE [err |-> Nil, config |-> [loaded |-> TRUE, Database |-> yaml.Database]]

\* Config.Validate
Validate(c) ==
    IF c.Database.Host = "" THEN Error("database host is required")
    ELSE IF c.Database.Port = 0 THEN Error("database port is required")
    ELSE IF c.Database.DBName = "" THEN Error("database name is required")
    ELSE IF c.Database.User = "" THEN Error("database user is required")
    ELSE Nil

\* The three ways initializeGraphJin fails, and its success.
Databases == {"open fails", "ping fails", "new fails", "ready"}

\* initializeGraphJin(config) of the validate command: the handle it leaves
\* behind and its error. A handle whose ping or whose Engine construction
\* failed is closed before the return; sql.Open that failed gave no handle.
initializeGraphJin(database) ==
    CASE database = "open fails" ->
            [db |-> "none", err |-> Error("failed to connect to database: unknown driver")]
      [] database = "ping fails" ->
            [db |-> "closed", err |-> Error("failed to ping database: connection refused")]
      [] database = "new fails" ->
            [db |-> "closed", err |-> Error("failed to create GraphJin instance: no tables")]
      [] OTHER -> [db |-> "open", err |-> Nil]

\* main.go's initializeGraphJin(config): the handle is not closed on a failure.
mainInitializeGraphJin(database) ==
    CASE database = "open fails" ->
            [db |-> "none", err |-> Error("failed to connect to database: unknown driver")]
      [] database = "ping fails" ->
            [db |-> "open", err |-> Error("failed to ping database: connection refused")]
      [] database = "new fails" ->
            [db |-> "open", err |-> Error("failed to create GraphJin instance: no tables")]
      [] OTHER -> [db |-> "open", err |-> Nil]

\* db.Close() that leaves the handle as it is.
KeepOpen(handle) == handle

\* db.Close()
Close(handle) == IF handle = "open" THEN "closed" ELSE handle

\* The configuration files and the environments of a run.
Database(host, port, dbname, user) ==
    [Host |-> host, Port |-> port, DBName |-> dbname, User |-> user,
     Password |-> "secret", SSLMode |-> "disable"]
Yaml(database) == [read |-> TRUE, parsed |-> TRUE, Database |-> database]
Unreadable == [read |-> FALSE, parsed |-> FALSE, Database |-> ZeroDatabase]
Unparseable == [read |-> TRUE, parsed |-> FALSE, Database |-> ZeroDatabase]
FullYaml == Yaml(Database("localhost", 5432, "app", "postgres"))
Yamls ==
    {Unreadable, Unparseable, FullYaml, Yaml(ZeroDatabase),
     Yaml(Database("", 5432, "app", "postgres")),
     Yaml(Database("localhost", 0, "app", "postgres")),
     Yaml(Database("localhost", 5432, "", "postgres")),
     Yaml(Database("localhost", 5432, "app", ""))}
NoEnv == [key \in {} |-> ""]
EnvValues(key) ==
    CASE key = "DB_HOST" -> {"", "db.internal"}
      [] key = "DB_PORT" -> {"", "6432", " 6432", "64x", "x64", "-1", "6_4", "+"}
      [] key = "DB_NAME" -> {"", "shop"}
      [] key = "DB_USER" -> {"", "ci"}
      [] key = "DB_PASSWORD" -> {"hunter2"}
      [] OTHER -> {"require"}
EnvNames == {"DB_HOST", "DB_PORT", "DB_NAME", "DB_USER", "DB_PASSWORD", "DB_SSLMODE"}
Environs ==
    {LET pick == [DB_HOST |-> h, DB_PORT |-> p, DB_NAME |-> n, DB_USER |-> u,
                  DB_PASSWORD |-> w, DB_SSLMODE |-> m]
     IN  [key \in {k \in EnvNames : pick[k] # "(unset)"} |-> pick[key]] :
        h \in EnvValues("DB_HOST") \cup {"(unset)"},
        p \in EnvValues("DB_PORT") \cup {"(unset)"},
        n \in EnvValues("DB_NAME") \cup {"(unset)"},
        u \in EnvValues("DB_USER") \cup {"(unset)"},
        w \in EnvValues("DB_PASSWORD") \cup {"(unset)"},
        m \in EnvValues("DB_SSLMODE") \cup {"(unset)"}}
RunYamls == {Unreadable, Unparseable, FullYaml, Yaml(Database("", 5432, "app", "postgres"))}
RunEnvirons == {NoEnv, [key \in {"DB_HOST"} |-> "db.internal"]}

\* The goroutines and the init command of a run that has neither.
NoScanners == <<>>
NoScaffold == <<>>

\* A runner before it loaded its configuration, and one that is set up.
NotSetUp(yamls, envs) ==
    /\ configYaml \in yamls
    /\ environ \in envs
    /\ config = NoConfig
    /\ db = "none"
    /\ scanners = NoScanners /\ scaffold = NoScaffold
SetUp ==
    /\ configYaml = FullYaml
    /\ environ = NoEnv
    /\ config = LoadConfig(FullYaml, NoEnv).config
    /\ db = "open"
    /\ scanners = NoScanners /\ scaffold = NoScaffold

----------------------------------------------------------------------------
(* The validate command around validateQueries: the query files, the exit *)

\* cmd.Execute: an error of the command is printed to stderr and the process
\* exits with status 1; otherwise main returns, the exit status is 0.
Exits(err) == <<[status |-> IF err.failed THEN 1 ELSE 0, err |-> err.msg]>>

\* runValidate going on after a step whatever its error.
ProceedsAnyway(err, next) == next

\* runValidate after a step that can fail: it returns the error, or goes on.
Proceeds(err, next) == IF err.failed THEN "exit" ELSE next

\* runValidate loads the configuration and validates it; an error of either
\* is returned, wrapped.
LoadsConfig ==
    /\ pc = "start"
    /\ LET loaded == LoadConfig(configYaml, environ)
           err == IF loaded.err.failed
                  THEN Error("failed to load config: " \o loaded.err.msg)
                  ELSE IF Validate(loaded.config).failed
                  THEN Error("invalid configuration: " \o Validate(loaded.config).msg)
                  ELSE Nil
       IN  /\ config' = loaded.config
           /\ pc' = Proceeds(err, "init")
           /\ exit' = IF err.failed THEN Exits(err) ELSE exit
    /\ UNCHANGED <<queryFiles, failFast, summary, resp, scanned, nested, results, calls, walk,
                   configYaml, environ, db, scanners, scaffold>>

\* runValidate calls initializeGraphJin; its error is returned, wrapped.
\* From here on the deferred db.Close() runs at every return.
InitializesGraphJin ==
    /\ pc = "init"
    /\ \E database \in Databases :
          LET gj == initializeGraphJin(database) IN
          /\ db' = gj.db
          /\ pc' = Proceeds(gj.err, "find")
          /\ exit' = IF gj.err.failed
                     THEN Exits(Error("failed to initialize GraphJin: " \o gj.err.msg))
                     ELSE exit
    /\ UNCHANGED <<queryFiles, failFast, summary, resp, scanned, nested, results, calls, walk,
                   configYaml, environ, config, scanners, scaffold>>

\* The lists of query files a run can find: one to MaxFiles files.
Found == {[i \in 1 .. n |-> QueryFile(i)] : n \in 1 .. MaxFiles}

\* runValidate has its query files (the one named by --file, which exists,
\* or those findQueryFiles found) and calls validateQueries.
FindQueryFiles ==
    /\ pc = "find"
    /\ \E files \in Found :
          /\ queryFiles' = files
          /\ summary' = [Total |-> Len(files), Passed |-> 0, Failed |-> 0, Results |-> <<>>]
    /\ pc' = "loop"
    /\ UNCHANGED <<failFast, resp, scanned, nested, results, calls, exit, walk, configYaml,
                   environ, config, db, scanners, scaffold>>

\* findQueryFiles found no file: "No query files found", runValidate
\* returns nil.
FindsNothing ==
    /\ pc = "find"
    /\ pc' = "exit"
    /\ exit' = Exits(Nil)
    /\ db' = Close(db)
    /\ UNCHANGED <<queryFiles, failFast, summary, resp, scanned, nested, results, calls, walk,
                   configYaml, environ, config, scanners, scaffold>>

\* The file named by --file does not exist, or findQueryFiles fails:
\* runValidate returns the error.
FindFails ==
    /\ pc = "find"
    /\ pc' = "exit"
    /\ \E err \in {Error("query file not found: " \o QueryFile(1)),
                    Error("failed to find query files: lstat queries: no such file or directory")} :
          exit' = Exits(err)
    /\ db' = Close(db)
    /\ UNCHANGED <<queryFiles, failFast, summary, resp, scanned, nested, results, calls, walk,
                   configYaml, environ, config, scanners, scaffold>>

\* runValidate with no failure counted as an error.
runValidateNil(sum) == Nil

\* What runValidate returns after validateQueries and printResults: the
\* error "<n> validation(s) failed", or nil.
runValidate(sum) ==
    IF sum.Failed > 0
    THEN Error(ToString(sum.Failed) \o " validation(s) failed")
    ELSE Nil

\* validateQueries returned: the results are printed, runValidate returns,
\* the process exits.
ValidateExits ==
    /\ pc = "done"
    /\ pc' = "exit"
    /\ exit' = Exits(runValidate(summary))
    /\ db' = Close(db)
    /\ UNCHANGED <<queryFiles, failFast, summary, resp, scanned, nested, results, calls, walk,
                   configYaml, environ, config, scanners, scaffold>>

----------------------------------------------------------------------------
(* main.go around testQueries: the query files, the exit *)

\* main loads the configuration: an error is fatal, log.Fatalf prints it and
\* exits with status 1.
MainLoadsConfig ==
    /\ pc = "main.start"
    /\ LET loaded == loadConfig(configYaml, environ) IN
       /\ config' = loaded.config
       /\ pc' = IF loaded.err.failed THEN "main.exit" ELSE "main.init"
       /\ exit' = IF loaded.err.failed
                  THEN <<[status |-> 1, err |-> "Failed to load config: " \o loaded.err.msg]>>
                  ELSE exit
    /\ UNCHANGED <<queryFiles, failFast, summary, resp, scanned, nested, results, calls, walk,
                   configYaml, environ, db, scanners, scaffold>>

\* main calls initializeGraphJin: an error is fatal in the same way.
MainInitializesGraphJin ==
    /\ pc = "main.init"
    /\ \E database \in Databases :
          LET gj == mainInitializeGraphJin(database) IN
          /\ db' = gj.db
          /\ pc' = IF gj.err.failed THEN "main.exit" ELSE "main.find"
          /\ exit' = IF gj.err.failed
                     THEN <<[status |-> 1, err |-> "Failed to initialize GraphJin: " \o gj.err.msg]>>
                     ELSE exit
    /\ UNCHANGED <<queryFiles, failFast, summary, resp, scanned, nested, results, calls, walk,
                   configYaml, environ, config, scanners, scaffold>>

\* findQueryFiles found the query files; testQueries is called.
MainFindQueryFiles ==
    /\ pc = "main.find"
    /\ queryFiles' \in Found
    /\ pc' = "main.loop"
    /\ UNCHANGED <<failFast, summary, resp, scanned, nested, results, calls, exit, walk,
                   configYaml, environ, config, db, scanners, scaffold>>

\* No query files found: os.Exit(0).
MainFindsNothing ==
    /\ pc = "main.find"
    /\ pc' = "main.exit"
    /\ exit' = <<[status |-> 0, err |-> ""]>>
    /\ UNCHANGED <<queryFiles, failFast, summary, resp, scanned, nested, results, calls, walk,
                   configYaml, environ, config, db, scanners, scaffold>>

\* findQueryFiles fails: log.Fatalf prints the message and exits with status 1.
MainFindFails ==
    /\ pc = "main.find"
    /\ pc' = "main.exit"
    /\ exit' = <<[status |-> 1,
                  err |-> "Failed to find query files: lstat queries: no such file or directory"]>>
    /\ UNCHANGED <<queryFiles, failFast, summary, resp, scanned, nested, results, calls, walk,
                   configYaml, environ, config, db, scanners, scaffold>>

\* exitCode: 0, and set to 1 by any result that did not pass.
exitCode(rs) == IF \E i \in DOMAIN rs : ~rs[i].Passed THEN 1 ELSE 0

\* os.Exit(exitCode) after testQueries and printResults.
MainExits ==
    /\ pc = "main.done"
    /\ pc' = "main.exit"
    /\ exit' = <<[status |-> exitCode(results), err |-> ""]>>
    /\ UNCHANGED <<queryFiles, failFast, summary, resp, scanned, nested, results, calls, walk,
                   configYaml, environ, config, db, scanners, scaffold>>

----------------------------------------------------------------------------
(* findNestedErrors call by call: the steps *)

\* findNestedErrors(data) is called, data being one of payloads.
WalkCall(payloads) ==
    /\ pc = "call"
    /\ pc' = "scan"
    /\ \E d \in payloads : walk' = [NoWalk EXCEPT !.data = d]
    /\ UNCHANGED <<queryFiles, failFast, summary, resp, scanned, nested, results, calls, exit,
                   configYaml, environ, config, db, scanners, scaffold>>

\* findNestedErrors up to its call of collectErrors: an empty payload and
\* one that does not decode return no findings at once.
WalkDecode ==
    /\ pc = "scan"
    /\ LET result == Unmarshalled[walk.data] IN
       IF Len(walk.data) = 0 \/ ~result.ok
       THEN /\ pc' = "found"
            /\ walk' = walk
       ELSE /\ pc' = "collect"
            /\ walk' = [walk EXCEPT !.stack = <<Call(result.val, "")>>]
    /\ UNCHANGED <<queryFiles, failFast, summary, resp, scanned, nested, results, calls, exit,
                   configYaml, environ, config, db, scanners, scaffold>>

\* The collectErrors call on top of the stack runs: it appends the findings
\* of its own keys, and its recursive calls run before the calls that were
\* pending.
WalkCollect ==
    /\ pc = "collect"
    /\ walk.stack # <<>>
    /\ LET top == Head(walk.stack) IN
       \E p \in Perms(Len(top.v.keys)) :
          walk' = [walk EXCEPT
                     !.errors = @ \o OwnFindings(top.v, top.path),
                     !.stack = RecursiveCalls(top.v, top.path, p) \o Tail(@)]
    /\ UNCHANGED <<queryFiles, failFast, pc, summary, resp, scanned, nested, results, calls,
                   exit, configYaml, environ, config, db, scanners, scaffold>>

\* The outermost collectErrors call returned: findNestedErrors returns errors.
WalkReturn ==
    /\ pc = "collect"
    /\ walk.stack = <<>>
    /\ pc' = "found"
    /\ UNCHANGED <<queryFiles, failFast, summary, resp, scanned, nested, results, calls, exit,
                   walk, configYaml, environ, config, db, scanners, scaffold>>

----------------------------------------------------------------------------
(* Two findNestedErrors calls in two goroutines *)

Goroutines == {1, 2}

\* The payloads the two calls are made with.
PairValues ==
    {Null,
     Wrap(<<Index(1)>>, Entry("error", Str("bad"))),
     Wrap(<<KeyBesideError("data"), Key("users")>>, Entry("error", Str("bad"))),
     Merge(Entry("error", Msg("denied")), Entry("errors", Arr(<<Msg("e1"), Msg("e2")>>))),
     Entry("error", Arr(<<Entry("error", Str("inner"))>>))}
PairData == {Encode(v) : v \in PairValues} \cup {<<>>, <<Tok("{")>>}

\* One accumulator for both goroutines.
SharedAccumulator(g) == 1

\* The slice goroutine g's collectErrors calls append to: the local variable
\* errors of g's own findNestedErrors call, handed down by pointer.
Accumulator(g) == g

\* Goroutine g's findNestedErrors up to its call of collectErrors.
ScannerDecode(g) ==
    /\ scanners[g].pc = "scan"
    /\ LET result == Unmarshal(scanners[g].data) IN
       IF Len(scanners[g].data) = 0 \/ ~result.ok
       THEN scanners' = [scanners EXCEPT ![g].pc = "found"]
       ELSE scanners' = [scanners EXCEPT ![g].pc = "collect",
                                         ![g].stack = <<Call(result.val, "")>>]
    /\ UNCHANGED <<queryFiles, failFast, pc, summary, resp, scanned, nested, results, calls, exit,
                   walk, configYaml, environ, config, db, scaffold>>

\* The collectErrors call on top of goroutine g's stack runs.
ScannerCollect(g) ==
    /\ scanners[g].pc = "collect"
    /\ scanners[g].stack # <<>>
    /\ LET top == Head(scanners[g].stack) IN
       \E p \in Perms(Len(top.v.keys)) :
          scanners' = [scanners EXCEPT
                         ![Accumulator(g)].errors = @ \o OwnFindings(top.v, top.path),
                         ![g].stack = RecursiveCalls(top.v, top.path, p) \o Tail(@)]
    /\ UNCHANGED <<queryFiles, failFast, pc, summary, resp, scanned, nested, results, calls, exit,
                   walk, configYaml, environ, config, db, scaffold>>

\* Goroutine g's outermost collectErrors call returned: its findNestedErrors
\* returns errors.
ScannerReturn(g) ==
    /\ scanners[g].pc = "collect"
    /\ scanners[g].stack = <<>>
    /\ scanners' = [scanners EXCEPT ![g].pc = "found"]
    /\ UNCHANGED <<queryFiles, failFast, pc, summary, resp, scanned, nested, results, calls, exit,
                   walk, configYaml, environ, config, db, scaffold>>

----------------------------------------------------------------------------
(* The init command: runInit, writeFileIfNotExists *)

\* The six scaffold files in the order runInit writes them, and the sample
\* content of each (the constants sampleConfig ... sampleGitignore).
ScaffoldPaths ==
    <<"config.yaml", ".env.example", "queries/get_users.graphql",
      "queries/get_user_by_id.graphql", "queries/get_user_by_id.json", ".gitignore">>
Samples ==
    <<"sampleConfig", "sampleEnv", "sampleQuery", "sampleQueryWithVars", "sampleVars",
      "sampleGitignore">>

\* A path of the project directory: nothing there, or a file with its content.
Absent == [exists |-> FALSE, content |-> ""]
File(content) == [exists |-> TRUE, content |-> content]

\* The most runs of the init command in one project directory.
MaxRuns == 2

\* writeFileIfNotExists that writes whether or not the file exists.
writeFileAlways(path, file, content, flag, writable) ==
    IF ~writable
    THEN [file |-> file, report |-> <<>>,
          err |-> Error("failed to write " \o path \o ": permission denied")]
    ELSE [file |-> File(content), report |-> <<"Created">>, err |-> Nil]

\* writeFileIfNotExists(path, content, overwrite) where file is what os.Stat
\* finds at path and writable tells whether os.WriteFile succeeds: the file
\* afterwards, what is printed about it, and the error.
writeFileIfNotExists(path, file, content, flag, writable) ==
    IF file.exists /\ ~flag
    THEN [file |-> file, report |-> <<"Skipped (exists)">>, err |-> Nil]
    ELSE IF ~writable
    THEN [file |-> file, report |-> <<>>,
          err |-> Error("failed to write " \o path \o ": permission denied")]
    ELSE [file |-> File(content), report |-> <<"Created">>, err |-> Nil]

\* The init command is started in a project directory with files fs:
\* scaffold.start keeps the files as the run found them, next is the
\* scaffold file runInit writes next (0: before os.MkdirAll), out what the
\* run printed about each file it got to, returned and err its end.
Started(fs, flag, run) ==
    [overwrite |-> flag, run |-> run, start |-> fs, fs |-> fs, next |-> 0, out |-> <<>>,
     returned |-> FALSE, err |-> Nil]

\* os.MkdirAll(queriesDir): the directory is there afterwards, or runInit
\* returns the error.
InitMkdirAll ==
    /\ ~scaffold.returned /\ scaffold.next = 0
    /\ \E ok \in BOOLEAN :
          scaffold' = IF ok THEN [scaffold EXCEPT !.next = 1]
                      ELSE [scaffold EXCEPT
                              !.returned = TRUE,
                              !.err = Error("failed to create queries directory: permission denied")]
    /\ UNCHANGED <<queryFiles, failFast, pc, summary, resp, scanned, nested, results, calls, exit,
                   walk, configYaml, environ, config, db, scanners>>

\* runInit's next writeFileIfNotExists call; an error returns at once, and
\* after the sixth file runInit returns nil.
InitWriteFile ==
    /\ ~scaffold.returned /\ scaffold.next \in DOMAIN ScaffoldPaths
    /\ \E writable \in BOOLEAN :
          LET k == scaffold.next
              w == writeFileIfNotExists(ScaffoldPaths[k], scaffold.fs[k], Samples[k],
                                        scaffold.overwrite, writable)
          IN  scaffold' = [scaffold EXCEPT
                             !.fs[k] = w.file,
                             !.out = @ \o w.report,
                             !.err = w.err,
                             !.next = IF w.err.failed THEN @ ELSE @ + 1,
                             !.returned = w.err.failed \/ k = Len(ScaffoldPaths)]
    /\ UNCHANGED <<queryFiles, failFast, pc, summary, resp, scanned, nested, results, calls, exit,
                   walk, configYaml, environ, config, db, scanners>>

\* The command is run again in the same directory, with or without --overwrite.
InitAgain ==
    /\ scaffold.returned /\ scaffold.run < MaxRuns
    /\ \E flag \in BOOLEAN : scaffold' = Started(scaffold.fs, flag, scaffold.run + 1)
    /\ UNCHANGED <<queryFiles, failFast, pc, summary, resp, scanned, nested, results, calls, exit,
                   walk, configYaml, environ, config, db, scanners>>

----------------------------------------------------------------------------
(* Specifications *)

InitWith(files, flags) ==
    /\ queryFiles \in files
    /\ failFast \in flags
    /\ pc = "loop"
    /\ summary = [Total |-> Len(queryFiles), Passed |-> 0, Failed |-> 0, Results |-> <<>>]
    /\ resp = NoResp
    /\ scanned = FALSE
    /\ nested = <<>>
    /\ results = <<>>
    /\ calls = <<>>
    /\ exit = <<>>
    /\ walk = NoWalk
    /\ SetUp

\* A validate run from the start of runValidate to the exit of the process.
Init ==
    /\ queryFiles = <<>>
    /\ failFast \in BOOLEAN
    /\ pc = "start"
    /\ summary = [Total |-> 0, Passed |-> 0, Failed |-> 0, Results |-> <<>>]
    /\ resp = NoResp
    /\ scanned = FALSE
    /\ nested = <<>>
    /\ results = <<>>
    /\ calls = <<>>
    /\ exit = <<>>
    /\ walk = NoWalk
    /\ NotSetUp(RunYamls, RunEnvirons)
Next ==
    \/ LoadsConfig \/ InitializesGraphJin
    \/ FindQueryFiles \/ FindsNothing \/ FindFails
    \/ ReadQueryFails \/ ReadVariablesFails \/ ExecuteRun
    \/ ValidateExits
Spec == Init /\ [][Next]_vars

\* validateSingleQuery of one query file, over the payloads of ScanData:
\* from the call of validateQueries with that file.
InitScan == InitWith({<<QueryFile(1)>>}, {FALSE})
NextScan == ReadQueryFails \/ ReadVariablesFails \/ ExecuteScan
SpecScan == InitScan /\ [][NextScan]_vars

\* A run of the standalone runner, from the start of main to the exit; it
\* has no fail-fast flag and no summary.
InitMain ==
    /\ queryFiles = <<>>
    /\ failFast = FALSE
    /\ pc = "main.start"
    /\ summary = [Total |-> 0, Passed |-> 0, Failed |-> 0, Results |-> <<>>]
    /\ resp = NoResp
    /\ scanned = FALSE
    /\ nested = <<>>
    /\ results = <<>>
    /\ calls = <<>>
    /\ exit = <<>>
    /\ walk = NoWalk
    /\ NotSetUp(RunYamls, RunEnvirons)
NextMain ==
    \/ MainLoadsConfig \/ MainInitializesGraphJin
    \/ MainFindQueryFiles \/ MainFindsNothing \/ MainFindFails
    \/ MainReadQueryFails \/ ExecuteMain
    \/ MainExits
SpecMain == InitMain /\ [][NextMain]_vars

\* A run of either runner.
InitBoth == Init \/ InitMain
NextBoth == Next \/ NextMain
SpecBoth == InitBoth /\ [][NextBoth]_vars

\* The loading of the configuration in either runner, for every
\* configuration file of Yamls under every environment of Environs.
InitConfig ==
    /\ queryFiles = <<>>
    /\ failFast = FALSE
    /\ pc \in {"start", "main.start"}
    /\ summary = [Total |-> 0, Passed |-> 0, Failed |-> 0, Results |-> <<>>]
    /\ resp = NoResp
    /\ scanned = FALSE
    /\ nested = <<>>
    /\ results = <<>>
    /\ calls = <<>>
    /\ exit = <<>>
    /\ walk = NoWalk
    /\ NotSetUp(Yamls, Environs)
NextConfig == LoadsConfig \/ MainLoadsConfig
SpecConfig == InitConfig /\ [][NextConfig]_vars

\* The init command in a project directory where each scaffold path holds
\* nothing or a file the user wrote.
InitScaffold ==
    /\ queryFiles = <<>>
    /\ failFast = FALSE
    /\ pc = "init"
    /\ summary = [Total |-> 0, Passed |-> 0, Failed |-> 0, Results |-> <<>>]
    /\ resp = NoResp
    /\ scanned = FALSE
    /\ nested = <<>>
    /\ results = <<>>
    /\ calls = <<>>
    /\ exit = <<>>
    /\ walk = NoWalk
    /\ configYaml = FullYaml /\ environ = NoEnv /\ config = NoConfig /\ db = "none"
    /\ scanners = NoScanners
    /\ \E fs \in [DOMAIN ScaffoldPaths -> {Absent, File("edited")}], flag \in BOOLEAN :
          scaffold = Started(fs, flag, 1)
NextScaffold == InitMkdirAll \/ InitWriteFile \/ InitAgain
SpecScaffold == InitScaffold /\ [][NextScaffold]_vars

\* Two goroutines that each called findNestedErrors with a payload of
\* PairData; the scheduler interleaves their steps in any order.
InitPair ==
    /\ queryFiles = <<>>
    /\ failFast = FALSE
    /\ pc = "go"
    /\ summary = [Total |-> 0, Passed |-> 0, Failed |-> 0, Results |-> <<>>]
    /\ resp = NoResp
    /\ scanned = FALSE
    /\ nested = <<>>
    /\ results = <<>>
    /\ calls = <<>>
    /\ exit = <<>>
    /\ walk = NoWalk
    /\ configYaml = FullYaml /\ environ = NoEnv /\ config = NoConfig /\ db = "none"
    /\ scaffold = NoScaffold
    /\ \E d1 \in PairData, d2 \in PairData :
          scanners = [g \in Goroutines |->
                        [pc |-> "scan", data |-> IF g = 1 THEN d1 ELSE d2,
                         stack |-> <<>>, errors |-> <<>>]]
NextPair == \E g \in Goroutines : ScannerDecode(g) \/ ScannerCollect(g) \/ ScannerReturn(g)
SpecPair == InitPair /\ [][NextPair]_vars

\* findNestedErrors(data) call by call, for any payload of ScanData. The
\* function runs in one goroutine that nothing blocks: its next step is
\* always taken.
InitWalk ==
    /\ queryFiles = <<>>
    /\ failFast = FALSE
    /\ pc = "call"
    /\ summary = [Total |-> 0, Passed |-> 0, Failed |-> 0, Results |-> <<>>]
    /\ resp = NoResp
    /\ scanned = FALSE
    /\ nested = <<>>
    /\ results = <<>>
    /\ calls = <<>>
    /\ exit = <<>>
    /\ walk = NoWalk
    /\ NotSetUp({FullYaml}, {NoEnv})
NextWalk == WalkCall(ScanData) \/ WalkDecode \/ WalkCollect \/ WalkReturn
SpecWalk == InitWalk /\ [][NextWalk]_vars /\ WF_vars(NextWalk)

----------------------------------------------------------------------------
(* Properties. What follows states what is checked of the model above.     *)

\* The outcome of the latest validateSingleQuery.
LastResult == summary.Results[Len(summary.Results)]

\* The decoded payload of the latest Engine answer.
Decoded == Unmarshal(resp.Data)

\* The latest validateSingleQuery scanned a payload that decodes.
Walked == scanned /\ Decoded.ok

\* The chains of descents (Key, Index steps) that lead from v to a value in it.
RECURSIVE Descents(_)
Descents(v) ==
    {<<>>} \cup
    (CASE v.t = "obj" ->
            UNION {{<<Key(v.keys[k])>> \o d : d \in Descents(v.kids[k])} : k \in DOMAIN v.kids}
       [] v.t = "arr" ->
            UNION {{<<Index(k - 1)>> \o d : d \in Descents(v.kids[k])} : k \in DOMAIN v.kids}
       [] OTHER -> {})

\* The value the chain d leads to.
RECURSIVE At(_, _)
At(v, d) ==
    IF d = <<>> THEN v
    ELSE IF Head(d).idx >= 0 THEN At(v.kids[Head(d).idx + 1], Tail(d))
         ELSE At(Get(v, Head(d).key), Tail(d))

\* The chains that lead to a mapping.
Mappings(v) == {d \in Descents(v) : At(v, d).t = "obj"}

\* A chain rendered: field names dot-joined, no leading dot; an index as [i],
\* no dot before it.
RECURSIVE Rendered(_)
Rendered(d) ==
    IF d = <<>> THEN ""
    ELSE LET front == Rendered(SubSeq(d, 1, Len(d) - 1))
             last == d[Len(d)]
         IN  IF last.idx >= 0 THEN front \o "[" \o ToString(last.idx) \o "]"
             ELSE IF front = "" THEN last.key
                  ELSE front \o "." \o last.key

\* ... with the empty chain as the token root.
RenderedOrRoot(d) == IF d = <<>> THEN "root" ELSE Rendered(d)

HasPrefix(str, pre) == Len(str) >= Len(pre) /\ SubSeq(str, 1, Len(pre)) = pre

\* The findings of list with the prefix pre.
WithPrefix(list, pre) == {k \in DOMAIN list : HasPrefix(list[k], pre)}

\* block occurs in list as consecutive entries.
IsBlock(list, block) ==
    \E at \in 0 .. Len(list) - Len(block) :
        \A k \in DOMAIN block : list[at + k] = block[k]

\* The mapping m carries a non-empty string under "error".
HasErrorString(m) ==
    Has(m, "error") /\ Get(m, "error").t = "str" /\ Get(m, "error").s # ""

\* The mapping m carries a mapping with a string "message" under "error".
HasErrorMessage(m) ==
    Has(m, "error") /\ Get(m, "error").t = "obj" /\ HasStringMessage(Get(m, "error"))

\* The mapping m carries a non-empty sequence under "errors".
HasErrorList(m) ==
    Has(m, "errors") /\ Get(m, "errors").t = "arr" /\ Get(m, "errors").kids # <<>>

\* The messages the three sources of the latest Engine answer give, the
\* first two as the claim states them.
ExecutionPart == IF resp.hasErr THEN <<"Execution error: " \o resp.err>> ELSE <<>>
StructuredPart == [k \in DOMAIN resp.Errors |-> resp.Errors[k].Message]

\* C1: the outcome's message list is "Execution error: <e>" if e is present,
\* then the structured errors' messages in input order, then the nested
\* findings of the payload; every present source is appended.
C1_MessagesInOrder ==
    resp.invoked =>
        /\ LastResult.Errors = ExecutionPart \o StructuredPart \o nested
        /\ scanned = (resp.hasRes /\ resp.Data # <<>>)
        /\ scanned => nested \in findNestedErrors(resp.Data)
        /\ ~scanned => nested = <<>>

\* C1 witness: all three sources are present and appended.
C1_Witness ==
    /\ resp.invoked /\ resp.hasErr /\ Len(resp.Errors) = 2 /\ Len(nested) = 2
    /\ Len(LastResult.Errors) = 5

\* C2: every mapping reached through any chain of mappings and sequences
\* that has a non-empty string under "error" gives the finding
\* "Error at <its path>: <string>".
C2_ErrorStringFound ==
    Walked =>
        \A d \in Mappings(Decoded.val) :
            HasErrorString(At(Decoded.val, d)) =>
                ("Error at " \o RenderedOrRoot(d) \o ": " \o Get(At(Decoded.val, d), "error").s)
                    \in Range(nested)

\* C2 witness: a mapping two levels down, beside an "error" of an ancestor
\* and an "errors" list of its own, is found.
C2_Witness ==
    /\ Walked
    /\ \E d \in Mappings(Decoded.val) :
          /\ Len(d) = 2
          /\ HasErrorString(At(Decoded.val, d)) /\ HasErrorList(At(Decoded.val, d))
          /\ HasErrorString(Decoded.val)
    /\ "Error at data.users: bad" \in Range(nested)
    /\ "Error at root: sibling" \in Range(nested)

\* The text of the finding the "error" key of mapping m gives.
ErrorText(m) ==
    IF HasErrorString(m) THEN Get(m, "error").s ELSE Get(Get(m, "error"), "message").s

\* The mappings of v whose "error" key gives a finding.
ErrorFindings(v) ==
    {d \in Mappings(v) : HasErrorString(At(v, d)) \/ HasErrorMessage(At(v, d))}

\* C3: the path of a finding is the chain of descents to its mapping, field
\* names dot-joined with no leading dot and indices appended as [i] with no
\* dot: in a payload without error lists the findings are exactly the
\* "error" findings of its mappings, each under its rendered chain.
C3_PathIsChain ==
    (Walked /\ \A d \in Mappings(Decoded.val) : ~HasErrorList(At(Decoded.val, d))) =>
        /\ Range(nested) =
              {"Error at " \o RenderedOrRoot(d) \o ": " \o ErrorText(At(Decoded.val, d)) :
                  d \in ErrorFindings(Decoded.val)}
        /\ Len(nested) = Cardinality(ErrorFindings(Decoded.val))

\* C3 witness: a mapping under index 1 of a top-level sequence, key users,
\* index 0, key posts.
C3_Witness ==
    /\ Walked
    /\ <<Index(1), Key("users"), Index(0), Key("posts")>> \in ErrorFindings(Decoded.val)
    /\ nested = <<"Error at [1].users[0].posts: bad">>

\* C4: no finding of the top-level mapping renders its path as the empty
\* string (which shows as "Error at [i]: ..." or "Error at : ..."); the
\* paths of all other findings of a top-level mapping start with a key.
C4_RootNeverEmpty ==
    (Walked /\ Decoded.val.t = "obj") =>
        /\ WithPrefix(nested, "Error at [") = {}
        /\ WithPrefix(nested, "Error at :") = {}

\* The mapping m's "errors" is a non-empty sequence of mappings that hold a
\* string "message" and nothing else.
OnlyMessages(m) ==
    /\ HasErrorList(m)
    /\ \A e \in Range(Get(m, "errors").kids) :
          e.t = "obj" /\ e.keys = <<"message">> /\ e.kids[1].t = "str"

\* C5: such a mapping at path P gives exactly the findings
\* "Error at <P or root>[i]: <message_i>", i = 0..n-1, in index order.
C5_ErrorListIndexed ==
    Walked =>
        \A d \in Mappings(Decoded.val) :
            OnlyMessages(At(Decoded.val, d)) =>
                LET list == Get(At(Decoded.val, d), "errors").kids
                    here == "Error at " \o RenderedOrRoot(d) \o "["
                IN  /\ IsBlock(nested, [k \in DOMAIN list |->
                                   here \o ToString(k - 1) \o "]: " \o list[k].kids[1].s])
                    /\ Cardinality(WithPrefix(nested, here)) = Len(list)

\* C5 witness: two messages at users[0].posts.
C5_Witness ==
    /\ Walked
    /\ <<Key("users"), Index(0), Key("posts")>> \in Mappings(Decoded.val)
    /\ OnlyMessages(At(Decoded.val, <<Key("users"), Index(0), Key("posts")>>))
    /\ nested = <<"Error at users[0].posts[0]: e1", "Error at users[0].posts[1]: e2">>

\* C6: every element of a non-empty "errors" sequence that is no mapping with
\* a string "message" gives the finding
\* "Error at <path or root>[i]: <the element's default rendering>".
C6_OtherElementsRendered ==
    Walked =>
        \A d \in Mappings(Decoded.val) :
            HasErrorList(At(Decoded.val, d)) =>
                LET list == Get(At(Decoded.val, d), "errors").kids IN
                \A k \in DOMAIN list :
                    ~(list[k].t = "obj" /\ HasStringMessage(list[k])) =>
                        ("Error at " \o RenderedOrRoot(d) \o "[" \o ToString(k - 1) \o "]: "
                            \o FmtV(list[k])) \in Range(nested)

\* d2 lies below the child of d under key.
Below(d, key, d2) ==
    Len(d2) > Len(d) /\ SubSeq(d2, 1, Len(d)) = d /\ d2[Len(d) + 1] = Key(key)

\* C7: a non-null "error" that is a mapping with a string "message" gives
\* exactly "Error at <path or root>: <message>"; any other value that is no
\* string gives no finding for the key; the value is still walked.
C7_ErrorKeyShapes ==
    Walked =>
        \A d \in Mappings(Decoded.val) :
            LET m == At(Decoded.val, d)
                here == "Error at " \o RenderedOrRoot(d) \o ": "
            IN  (Has(m, "error") /\ Get(m, "error").t \notin {"null", "str"}) =>
                    /\ HasErrorMessage(m) =>
                          /\ Cardinality(WithPrefix(nested, here)) = 1
                          /\ (here \o Get(Get(m, "error"), "message").s) \in Range(nested)
                    /\ ~HasErrorMessage(m) => WithPrefix(nested, here) = {}
                    /\ \A d2 \in Mappings(Decoded.val) :
                          (Below(d, "error", d2) /\ HasErrorString(At(Decoded.val, d2))) =>
                              ("Error at " \o Rendered(d2) \o ": "
                                  \o Get(At(Decoded.val, d2), "error").s) \in Range(nested)

\* C7 witness: {"error": {"error": "inner"}}: nothing for the outer key, the
\* inner one found under the path error.
C7_Witness ==
    /\ Walked
    /\ Decoded.val = Entry("error", Entry("error", Str("inner")))
    /\ nested = <<"Error at error: inner">>

\* Every "error" key of v holds "" or null, and every "errors" key [].
OnlyQuiet(v) ==
    \A d \in Mappings(v) :
        /\ Has(At(v, d), "error") => Get(At(v, d), "error") \in {Str(""), Null}
        /\ Has(At(v, d), "errors") => Get(At(v, d), "errors") = Arr(<<>>)

\* ... and there is such a key.
Quiet(v) ==
    /\ OnlyQuiet(v)
    /\ \E d \in Mappings(v) : Has(At(v, d), "error") \/ Has(At(v, d), "errors")

\* The outcome of the latest query of the standalone runner.
LastMainResult == results[Len(results)]

\* C8: a payload whose only error-convention content is "error": "",
\* "error": null or "errors": [] gives no nested finding, and the query
\* passes when there is no execution error and no structured error. Here for
\* the standalone runner (main.go), whose verdict on the payload is
\* hasNestedErrors.
C8_QuietPayloadPasses ==
    (resp.invoked /\ resp.hasRes /\ Decoded.ok /\ Quiet(Decoded.val)
        /\ ~resp.hasErr /\ resp.Errors = <<>>) =>
            LastMainResult.Passed

\* The same for the validate command (validateSingleQuery).
QuietPayloadPassesValidate ==
    (Walked /\ Quiet(Decoded.val)) =>
        /\ nested = <<>>
        /\ (~resp.hasErr /\ resp.Errors = <<>>) =>
                LastResult.Passed /\ LastResult.Errors = <<>>

\* C9: an "errors" value that is no sequence gives nothing by the error-list
\* rule, and is walked as the child under the segment errors.
C9_ErrorsNotAList ==
    Walked =>
        \A d \in Mappings(Decoded.val) :
            LET m == At(Decoded.val, d) IN
            (Has(m, "errors") /\ Get(m, "errors").t \notin {"null", "arr"}) =>
                /\ WithPrefix(nested, "Error at " \o RenderedOrRoot(d) \o "[") = {}
                /\ WithPrefix(nested, "Error at " \o Rendered(d) \o "[") = {}
                /\ \A d2 \in Mappings(Decoded.val) :
                      (Below(d, "errors", d2) /\ HasErrorString(At(Decoded.val, d2))) =>
                          ("Error at " \o Rendered(d2) \o ": "
                              \o Get(At(Decoded.val, d2), "error").s) \in Range(nested)

\* C9 witness: {"errors": {"error": "x"}} gives "Error at errors: x".
C9_Witness ==
    /\ Walked
    /\ Decoded.val = Entry("errors", Entry("error", Str("x")))
    /\ nested = <<"Error at errors: x">>

\* C10: findNestedErrors returns no finding for an absent or empty payload
\* and for one that does not decode, and the outcome's messages are then
\* those of the execution error and the structured errors alone.
C10_NoPayloadNoFindings ==
    (resp.invoked /\ (~resp.hasRes \/ resp.Data = <<>> \/ ~Decoded.ok)) =>
        /\ findNestedErrors(resp.Data) = {<<>>}
        /\ nested = <<>>
        /\ LastResult.Errors = ExecutionPart \o StructuredPart

\* C10 witness: a payload that does not decode was handed to
\* findNestedErrors, beside an execution error and two structured errors.
C10_Witness ==
    /\ scanned /\ ~Decoded.ok
    /\ resp.hasErr /\ Len(resp.Errors) = 2
    /\ Len(LastResult.Errors) = 3

\* The pending calls and the findings of the walk are what collectErrors can
\* hold: calls on decoded values with a string path, and strings.
WalkTyped ==
    /\ \A k \in DOMAIN walk.stack :
          /\ walk.stack[k].v.t \in {"null", "bool", "num", "str", "arr", "obj"}
          /\ walk.stack[k].path \in STRING
    /\ walk.errors \in Seq(STRING)

\* C11: for every payload, and so for every decoded value tree (top-level
\* scalars and sequences among them), the scan terminates: findNestedErrors
\* returns, and what it returns is a finite list of strings.
C11_ScanTerminates == []WalkTyped /\ <>(pc = "found" /\ walk.stack = <<>>)

\* C11 witness: the scan of a top-level sequence returned, with two findings.
C11_Witness ==
    /\ pc = "found"
    /\ Unmarshalled[walk.data].val.t = "arr"
    /\ Len(walk.errors) = 2

\* C12: scanning the same decoded value twice gives the identical ordered
\* list of findings: whatever list a scan of the payload can return is the
\* list the scan of the run returned.
C12_SameListTwice ==
    Walked => \A again \in findNestedErrors(resp.Data) : again = nested

\* The lists a and b hold the same strings, each as many times.
SameBag(a, b) ==
    /\ Len(a) = Len(b)
    /\ \A x \in Range(a) \cup Range(b) :
          Cardinality({k \in DOMAIN a : a[k] = x}) = Cardinality({k \in DOMAIN b : b[k] = x})

\* C13: whatever the orders the keys of the mappings are visited in, the
\* scans of one value return the same findings with the same
\* multiplicities.
C13_SameMultiset ==
    Walked => \A other \in findNestedErrors(resp.Data) : SameBag(other, nested)

\* C13 witness: a payload whose scans return findings in more than one order.
C13_Witness ==
    /\ Walked
    /\ Len(nested) >= 2
    /\ \E other \in findNestedErrors(resp.Data) : other # nested

\* C14: every outcome of validateSingleQuery has Passed true if and only if
\* its Errors list is empty, the outcomes of the early returns (query file
\* or variables file not read) included.
C14_PassedIffNoErrors ==
    \A i \in DOMAIN summary.Results :
        summary.Results[i].Passed <=> (summary.Results[i].Errors = <<>>)

\* C14 witness: an outcome of an early return, then one with an execution
\* error, a structured error and a nested finding.
C14_Witness ==
    /\ Len(summary.Results) = 2
    /\ ~summary.Results[1].Passed
    /\ Len(summary.Results[1].Errors) = 1
    /\ HasPrefix(summary.Results[1].Errors[1], "Failed to read variables file: ")
    /\ resp.hasErr /\ Len(resp.Errors) = 1 /\ Len(nested) = 1
    /\ Len(LastResult.Errors) = 3 /\ ~LastResult.Passed

\* validateQueries was called and returned.
Returned == pc \in {"done", "exit"} /\ queryFiles # <<>>

\* C15: every summary validateQueries returns has
\* Passed + Failed = Total = len(Results), with or without fail-fast.
C15_SummaryAddsUp ==
    Returned =>
        /\ summary.Passed + summary.Failed = summary.Total
        /\ summary.Total = Len(summary.Results)

\* How many times the Engine was invoked for the i-th query file.
Times(i) == Cardinality({k \in DOMAIN calls : calls[k] = queryFiles[i]})

\* The outcome r is that of an early return: a file could not be read.
ReadFailed(r) ==
    /\ r.Errors # <<>>
    /\ \/ HasPrefix(r.Errors[1], "Failed to read query file: ")
       \/ HasPrefix(r.Errors[1], "Failed to read variables file: ")

\* C16 as stated: the Engine is invoked for no query file more than once,
\* and when the run is over it was invoked exactly once for each query file
\* handed to the runner.
C16_InvokedExactlyOnce ==
    /\ \A i \in DOMAIN queryFiles : Times(i) <= 1
    /\ Returned => \A i \in DOMAIN queryFiles : Times(i) = 1

\* C16, amended: the Engine is invoked for no query file more than once; for
\* a file that was validated it is invoked exactly once if the query file
\* and the variables file were read, and not at all if a read failed; for a
\* file that was not validated (yet, or ever, after a fail-fast stop) it is
\* not invoked.
C16_InvokedOnceWhenRead ==
    \A i \in DOMAIN queryFiles :
        /\ Times(i) <= 1
        /\ i <= Len(summary.Results) =>
              (Times(i) = 1 <=> ~ReadFailed(summary.Results[i]))
        /\ i > Len(summary.Results) => Times(i) = 0

\* C16 witness: a run without fail-fast over two files is over; the first
\* query file could not be read, the Engine was invoked for the second only.
C16_Witness ==
    /\ Returned /\ ~failFast
    /\ Len(queryFiles) = 2
    /\ ReadFailed(summary.Results[1])
    /\ calls = <<queryFiles[2]>>
    /\ resp.hasErr

\* C17 as stated: when the Engine call fails with the error m, the outcome
\* is failed and its messages are exactly <<"Execution error: " + m>>.
C17_OnlyExecutionError ==
    (resp.invoked /\ resp.hasErr) =>
        /\ ~LastResult.Passed
        /\ LastResult.Errors = <<"Execution error: " \o resp.err>>

\* C17, amended: when the Engine call fails with the error m, the outcome is
\* failed and its first message is "Execution error: " + m; it is the only
\* message when the Engine returned no result, or a result with no
\* structured errors and no nested findings; otherwise the messages of the
\* structured errors and the nested findings follow it.
C17_ExecutionErrorFirst ==
    (resp.invoked /\ resp.hasErr) =>
        /\ ~LastResult.Passed
        /\ LastResult.Errors # <<>>
        /\ Head(LastResult.Errors) = "Execution error: " \o resp.err
        /\ Tail(LastResult.Errors) =
              (IF resp.hasRes THEN StructuredPart \o nested ELSE <<>>)
        /\ (~resp.hasRes \/ (resp.Errors = <<>> /\ nested = <<>>)) =>
              LastResult.Errors = <<"Execution error: " \o resp.err>>

\* C17 witness: the Engine returned the error and no result.
C17_Witness ==
    /\ resp.invoked /\ resp.hasErr /\ ~resp.hasRes
    /\ LastResult.Errors = <<"Execution error: table not found: public.x">>
    /\ ~LastResult.Passed

\* C18: without fail-fast a failing query never aborts the run: the
\* outcomes are those of the query files in input order, one per file, and
\* validateQueries returns only when every file has its outcome.
C18_NoFailFastRunsAll ==
    ~failFast =>
        /\ Len(summary.Results) <= Len(queryFiles)
        /\ \A i \in DOMAIN summary.Results :
              /\ summary.Results[i].Path = queryFiles[i]
              /\ summary.Results[i].Name = Base(queryFiles[i])
        /\ pc = "loop" => Len(summary.Results) < Len(queryFiles)
        /\ Returned => Len(summary.Results) = Len(queryFiles)

\* C18 witness: the first of two files failed, the second was validated
\* after it and passed.
C18_Witness ==
    /\ ~failFast /\ Returned
    /\ Len(queryFiles) = 2 /\ Len(summary.Results) = 2
    /\ ~summary.Results[1].Passed /\ summary.Results[2].Passed
    /\ calls = queryFiles

\* With fail-fast: at most one outcome failed, it is the last one, and the
\* run is over once there is one; no file without an outcome was sent to the
\* Engine.
FailFastStopped ==
    failFast =>
        /\ summary.Failed <= 1
        /\ \A i \in DOMAIN summary.Results :
              ~summary.Results[i].Passed => i = Len(summary.Results) /\ Returned
        /\ \A i \in DOMAIN queryFiles : i > Len(summary.Results) => Times(i) = 0

\* C19: with fail-fast the run stops at the first failed outcome: that
\* outcome is the last entry of Results, every earlier entry passed, Failed
\* is at most 1, and once validateQueries returned no file is read or sent
\* to the Engine any more (the outcomes and the calls stay as they are).
C19_FailFastStops ==
    /\ []FailFastStopped
    /\ [][Returned => (summary' = summary /\ calls' = calls /\ Returned')]_vars

\* C19 witness: the first of two files failed and the run is over, the
\* second file neither validated nor sent to the Engine.
C19_Witness ==
    /\ failFast /\ Returned
    /\ Len(queryFiles) = 2 /\ Len(summary.Results) = 1
    /\ ~LastResult.Passed /\ summary.Failed = 1
    /\ calls = <<queryFiles[1]>>

\* The outcomes of rs that failed.
FailedOutcomes(rs) == {i \in DOMAIN rs : ~rs[i].Passed}

\* The run ended in the search for the query files: the file named does not
\* exist, or the directory could not be walked.
SearchFailed ==
    /\ exit # <<>>
    /\ \/ HasPrefix(exit[1].err, "query file not found: ")
       \/ HasPrefix(exit[1].err, "failed to find query files: ")
       \/ HasPrefix(exit[1].err, "Failed to find query files: ")

\* The run ended in its setup: the configuration could not be loaded or is
\* invalid, or initializeGraphJin failed.
SetupFailed ==
    /\ exit # <<>>
    /\ \/ HasPrefix(exit[1].err, "failed to load config: ")
       \/ HasPrefix(exit[1].err, "invalid configuration: ")
       \/ HasPrefix(exit[1].err, "failed to initialize GraphJin: ")
       \/ HasPrefix(exit[1].err, "Failed to load config: ")
       \/ HasPrefix(exit[1].err, "Failed to initialize GraphJin: ")

\* C20: a run that has its query files (setup and the search for them
\* succeeded) exits with status 0 if no outcome failed and with status 1
\* otherwise, in the validate command and in the standalone runner; the
\* process has no exit status before it exits.
C20_ExitStatus ==
    /\ (pc = "exit" /\ ~SetupFailed /\ ~SearchFailed) =>
          exit[1].status = (IF FailedOutcomes(summary.Results) = {} THEN 0 ELSE 1)
    /\ (pc = "main.exit" /\ ~SetupFailed /\ ~SearchFailed) =>
          exit[1].status = (IF FailedOutcomes(results) = {} THEN 0 ELSE 1)
    /\ pc \in {"exit", "main.exit"} <=> exit # <<>>

\* C20 witness: the validate command exited with status 1 after a run over
\* two files, the second of which failed.
C20_Witness ==
    /\ pc = "exit" /\ exit = <<[status |-> 1, err |-> "1 validation(s) failed"]>>
    /\ Len(summary.Results) = 2
    /\ FailedOutcomes(summary.Results) = {2}

\* C21: a run that ended in its setup exits with a status that is neither 0
\* nor 1, the status of "one or more validations failed".
C21_SetupFailureCode == SetupFailed => exit[1].status \notin {0, 1}

\* The configuration file cannot be read or parsed.
ConfigUnusable == ~configYaml.read \/ ~configYaml.parsed

\* C22: a failure of the setup ends the run before any query is attempted. A
\* run whose configuration file is unusable, whose configuration is invalid
\* or whose initializeGraphJin failed never gets to the search for the query
\* files, and a run that ended in its setup has exited with no query file
\* taken up, no Engine call and no outcome.
C22_NothingAttempted ==
    /\ SetupFailed =>
          /\ pc \in {"exit", "main.exit"}
          /\ queryFiles = <<>> /\ calls = <<>>
          /\ summary.Results = <<>> /\ results = <<>>
          /\ resp = NoResp /\ ~scanned
    /\ (ConfigUnusable /\ pc \notin {"start", "main.start"}) => SetupFailed
    /\ pc \in {"init", "find", "loop", "done"} => ~Validate(config).failed
    /\ pc \in {"find", "loop", "done", "main.find", "main.loop", "main.done"} => db = "open"
    /\ (pc = "exit" /\ db = "none") => SetupFailed

\* C22 witness: the validate command exited because the ping failed, with a
\* valid configuration.
C22_Witness ==
    /\ pc = "exit" /\ SetupFailed /\ config.loaded /\ db = "closed"
    /\ HasPrefix(exit[1].err, "failed to initialize GraphJin: failed to ping database")

\* C30: when the validate command has returned, no database handle is open;
\* the handle is open while the command works on the query files.
C30_HandleClosed ==
    /\ pc = "exit" => db \in {"none", "closed"}
    /\ pc \in {"find", "loop", "done"} => db = "open"

\* C30 witness: the command returned after a run in which every query
\* passed, with the handle closed.
C30_Witness ==
    /\ pc = "exit" /\ db = "closed" /\ exit[1].status = 0
    /\ summary.Total > 0 /\ summary.Passed = summary.Total

\* The field of Config.Database an environment variable stands for.
Field(key) ==
    CASE key = "DB_HOST" -> "Host"
      [] key = "DB_NAME" -> "DBName"
      [] key = "DB_USER" -> "User"
      [] key = "DB_PASSWORD" -> "Password"
      [] OTHER -> "SSLMode"

\* A string that spells a number in decimal digits.
SpellsNumber(str) == Sscanf(str).ok /\ ToString(Sscanf(str).n) = str

\* C25: the configuration a runner loaded carries, for every variable that
\* is set in the environment to a value that is not empty, the value of the
\* variable in the field the variable stands for (for DB_PORT, set to a
\* decimal number, that number in Port).
C25_EnvironmentWins ==
    config.loaded =>
       \A key \in DOMAIN environ :
          IF key = "DB_PORT"
          THEN SpellsNumber(environ[key]) => ToString(config.Database.Port) = environ[key]
          ELSE environ[key] # "" => config.Database[Field(key)] = environ[key]

\* The same for the validate command alone, whose LoadConfig consults the
\* environment.
LoadConfigEnvironmentWins == pc \in {"init", "exit"} => C25_EnvironmentWins

\* C23: whenever the Engine was invoked, the variables it was handed are
\* the bytes of the query's variables file when that file exists and "{}"
\* when it does not, and they are never nil.
C23_VariablesPassed ==
    resp.invoked =>
       /\ resp.variables = (IF resp.file.exists THEN resp.file.data ELSE NoVariables)
       /\ resp.variables # <<>>

\* C24: in every interleaving of two findNestedErrors calls, a call that
\* returned returned a list it returns when it runs alone, and no step of
\* one call changes anything of the other call.
C24_ScannersIndependent ==
    /\ [](\A g \in Goroutines :
            scanners[g].pc = "found" => scanners[g].errors \in findNestedErrors(scanners[g].data))
    /\ [][\E g \in Goroutines : \A other \in Goroutines \ {g} :
             scanners'[other] = scanners[other]]_vars

\* C24 witness: both calls are under way on different payloads, each has
\* appended findings and each has collectErrors calls still to run.
C24_Witness ==
    /\ \A g \in Goroutines :
          /\ scanners[g].pc = "collect"
          /\ scanners[g].errors # <<>>
          /\ scanners[g].stack # <<>>
    /\ scanners[1].data # scanners[2].data

\* Both calls returned, with two findings and with three.
BothReturned ==
    /\ \A g \in Goroutines : scanners[g].pc = "found"
    /\ Len(scanners[1].errors) = 2 /\ Len(scanners[2].errors) = 3

\* C26 as stated: when the init command has returned, without --overwrite
\* every file that existed kept its content and was reported as skipped,
\* and with --overwrite every scaffold file holds its sample content.
C26_OverwriteOnlyWithFlag ==
    scaffold.returned =>
       IF scaffold.overwrite
       THEN \A k \in DOMAIN ScaffoldPaths : scaffold.fs[k] = File(Samples[k])
       ELSE \A k \in DOMAIN ScaffoldPaths :
               scaffold.start[k].exists =>
                  /\ scaffold.fs[k] = scaffold.start[k]
                  /\ k \in DOMAIN scaffold.out /\ scaffold.out[k] = "Skipped (exists)"

\* The run of the init command returned nil.
InitSucceeded == scaffold.returned /\ ~scaffold.err.failed

\* C26, amended: without --overwrite every file that existed keeps its
\* content, and each file the run got to is reported as skipped if it
\* existed and as created if not, so a run without --overwrite over six
\* existing files changes none of them; a run that returned nil got to all
\* six files and left all six in place, with the sample content if
\* --overwrite was given; a run that returned an error left the file it failed
\* at, and every file after it, as they were.
C26_OverwriteUnlessFailed ==
    /\ ~scaffold.overwrite =>
          /\ \A k \in DOMAIN ScaffoldPaths :
                scaffold.start[k].exists => scaffold.fs[k] = scaffold.start[k]
          /\ \A k \in DOMAIN scaffold.out :
                scaffold.out[k] = (IF scaffold.start[k].exists
                                   THEN "Skipped (exists)" ELSE "Created")
          /\ (\A k \in DOMAIN ScaffoldPaths : scaffold.start[k].exists) =>
                scaffold.fs = scaffold.start
    /\ InitSucceeded =>
          /\ Len(scaffold.out) = Len(ScaffoldPaths)
          /\ \A k \in DOMAIN ScaffoldPaths : scaffold.fs[k].exists
          /\ scaffold.overwrite =>
                \A k \in DOMAIN ScaffoldPaths : scaffold.fs[k] = File(Samples[k])
    /\ (scaffold.returned /\ scaffold.err.failed) =>
          \A k \in DOMAIN ScaffoldPaths :
             k > Len(scaffold.out) => scaffold.fs[k] = scaffold.start[k]

\* C26 witness: a second run without --overwrite returned nil over six
\* existing files, the first of them one the user wrote; all six were
\* reported as skipped.
C26_Witness ==
    /\ InitSucceeded /\ scaffold.run = 2 /\ ~scaffold.overwrite
    /\ scaffold.fs[1] = File("edited") /\ scaffold.fs[2] = File(Samples[2])
    /\ scaffold.out = [k \in DOMAIN ScaffoldPaths |-> "Skipped (exists)"]

\* A run with --overwrite returned nil over files the user wrote.
OverwroteEdited ==
    /\ InitSucceeded /\ scaffold.overwrite
    /\ \A k \in DOMAIN ScaffoldPaths : scaffold.start[k] = File("edited")

\* The places of the values in the tree v: the chains of child positions
\* that lead from v to a value in it.
RECURSIVE Places(_)
Places(v) ==
    {<<>>} \cup UNION {{<<k>> \o a : a \in Places(v.kids[k])} : k \in DOMAIN v.kids}

\* The value at place a of v, and the path collectErrors has when it gets there.
RECURSIVE ValueAt(_, _)
ValueAt(v, a) == IF a = <<>> THEN v ELSE ValueAt(v.kids[Head(a)], Tail(a))
RECURSIVE PathAt(_, _, _)
PathAt(v, a, path) ==
    IF a = <<>> THEN path
    ELSE PathAt(v.kids[Head(a)], Tail(a),
                IF v.t = "obj" THEN KeyPath(path, v.keys[Head(a)])
                ELSE IndexPath(path, Head(a) - 1))

\* Place a comes before place b in a depth-first pre-order walk: a is an
\* ancestor of b, or where the two chains part a takes the earlier child.
Before(a, b) ==
    \E i \in 1 .. Len(b) :
       /\ \A j \in 1 .. i - 1 : j <= Len(a) /\ a[j] = b[j]
       /\ i > Len(a) \/ a[i] < b[i]

\* The places of S, earliest first.
RECURSIVE InOrder(_)
InOrder(S) ==
    IF S = {} THEN <<>>
    ELSE LET first == CHOOSE a \in S : \A b \in S \ {a} : Before(a, b)
         IN  <<first>> \o InOrder(S \ {first})

\* The own findings of every value of v, place by place in pre-order.
PreOrderFindings(v) ==
    LET places == InOrder(Places(v))
    IN  Flatten([k \in DOMAIN places |->
                    OwnFindings(ValueAt(v, places[k]), PathAt(v, places[k], ""))])

\* C27: the findings of a scan are the own findings of the payload's values
\* taken in depth-first pre-order: a mapping's own findings come before
\* those of everything below it, and the findings of a sequence's element i
\* before those of element j for i < j (a mapping's entries being visited
\* in the order the range statement picked).
C27_PreOrder ==
    Walked => \E w \in RangeOrders(Decoded.val) : nested = PreOrderFindings(w)

\* C27 witness: a scan with findings at three depths and in both elements of
\* a sequence: the top mapping's, then element 0's and the one below it,
\* then element 1's.
C27_Witness ==
    /\ Walked
    /\ nested = <<"Error at root: top", "Error at users[0]: a",
                  "Error at users[0].posts: deep", "Error at users[1]: b">>

\* C28: at every boundary between iterations of validateQueries' loop and
\* at its return, Passed + Failed = len(Results) <= Total and the i-th
\* result is the i-th query file's; an iteration appends one result, leaves
\* the earlier ones as they are and adds one to one of the two counters.
C28_LoopInvariant ==
    /\ [](/\ summary.Passed + summary.Failed = Len(summary.Results)
          /\ Len(summary.Results) <= summary.Total
          /\ summary.Total = Len(queryFiles)
          /\ \A i \in DOMAIN summary.Results : summary.Results[i].Path = queryFiles[i])
    /\ [][pc = "loop" =>
            /\ Len(summary'.Results) = Len(summary.Results) + 1
            /\ SubSeq(summary'.Results, 1, Len(summary.Results)) = summary.Results
            /\ summary'.Passed >= summary.Passed /\ summary'.Failed >= summary.Failed
            /\ summary'.Total = summary.Total]_vars

\* C28 witness: the boundary after the first of two iterations, the first
\* query having failed.
C28_Witness ==
    /\ pc = "loop" /\ summary.Total = 2
    /\ Len(summary.Results) = 1 /\ summary.Failed = 1
    /\ summary.Results[1].Path = QueryFile(1)

\* C29: in one scan, two different mappings that each gave an "error"
\* finding gave them with different rendered paths.
C29_PathIdentifiesMapping ==
    Walked =>
       \A a, b \in Places(Decoded.val) :
          LET va == ValueAt(Decoded.val, a)
              vb == ValueAt(Decoded.val, b)
              pa == PathAt(Decoded.val, a, "")
              pb == PathAt(Decoded.val, b, "")
          IN  (/\ a # b
               /\ va.t = "obj" /\ ErrorKey(va, pa) # <<>>
               /\ vb.t = "obj" /\ ErrorKey(vb, pb) # <<>>)
              => Location(pa) # Location(pb)

====
